---- MODULE Spec2Model ----
(***************************************************************************)
(* A model of the Titles / Title aggregate of QtHEP-DiscData               *)
(* (src/Titles.py and the value objects it hashes): the ordered sequence   *)
(* of Title objects, its three dictionaries, the reordering operations,    *)
(* GetMatchingTitles and the content hash.                                 *)
(*                                                                         *)
(* Python values are modelled as follows.                                  *)
(*   - A Title object is an identity in Ids (what id(obj) returns); its    *)
(*     attributes are the record title[id].  NoTitle stands for None where *)
(*     a Title reference is expected.                                      *)
(*   - A dict is a function whose DOMAIN is the set of keys.               *)
(*   - A list is a sequence; Python index i is position i + 1.             *)
(*   - A duration string "HH:MM:SS" is the tuple <<HH, MM, SS>> of its     *)
(*     fields; the empty string is <<>>.                                   *)
(*   - A raised exception ends the operation where it is raised: what was  *)
(*     assigned before stays assigned; its name is left in raised.         *)
(***************************************************************************)
EXTENDS Integers, Sequences, FiniteSets, TLC

\* ------------------------------------------------------------------ bounds
\* The most titles a collection holds.
MaxTitles == 3

\* The most titles the collection holds while titles are inserted, replaced
\* and deleted one by one.
MaxMembers == 2

\* The most titles of a collection that GetMatchingTitles is called on or
\* whose hash is compared with another's.
MaxMatchTitles == 2

\* The most chapters, audio tracks and subtitle tracks of a title.
MaxItems == 1

MemberNumbers == 1..MaxMembers
MemberOrders == 0..(MaxMembers - 1)

\* One Title object more than a full collection holds: the object that
\* replaces a member of a full collection.
Ids == 1..(MaxTitles + 1)
TitleNumbers == 1..MaxTitles
OrderNumbers == 0..(MaxTitles - 1)

\* None, where a Title reference is expected.
NoTitle == 0

\* ----------------------------------------------------------------- helpers
Range(s) == {s[i] : i \in DOMAIN s}

Min(S) == CHOOSE x \in S : \A y \in S : x <= y

RECURSIVE SetToSortedSeq(_)
\* Python's sorted(keys) for integer keys.
SetToSortedSeq(S) ==
    IF S = {} THEN <<>>
    ELSE LET m == Min(S) IN <<m>> \o SetToSortedSeq(S \ {m})

\* dict.pop(k) for a key that is present, and d[k] = v.
Pop(d, k) == [x \in (DOMAIN d) \ {k} |-> d[x]]
Put(d, k, v) == [x \in (DOMAIN d) \cup {k} |-> IF x = k THEN v ELSE d[x]]
EmptyDict == [x \in {} |-> NoTitle]

\* list.insert(idx, v) with 0 <= idx <= len, and del list[idx].
ListInsert(s, idx, v) == SubSeq(s, 1, idx) \o <<v>> \o SubSeq(s, idx + 1, Len(s))
ListDelete(s, pos) == SubSeq(s, 1, pos - 1) \o SubSeq(s, pos + 1, Len(s))

Injective(s) == \A i, j \in DOMAIN s : s[i] = s[j] => i = j

\* ------------------------------------------------------------------- state
VARIABLES
    title,                \* id -> the Title object's attributes
    titles,               \* Titles.titles
    titlesById,           \* Titles.titlesById
    titlesByTitleNumber,  \* Titles.titlesByTitleNumber
    titlesByOrderNumber,  \* Titles.titlesByOrderNumber
    hash,                 \* Titles.hash
    policy,               \* the TitleVisibleSingleton
    other,                \* a second disc's titles, for comparing hashes
    disc,                 \* the Disc's own attributes
    discMixdowns,         \* DiscMixdownsSingleton.mixdowns
    audioTrackStates,     \* an AudioTrackStates object
    subtitleTrackStates,  \* a SubtitleTrackStates object
    chapters,             \* a Chapters object
    flags,                \* the flags argument of the last call that took one
    result,               \* what the last call returned
    lastOp,               \* the last operation called
    raised                \* the exception it raised, or "none"

\* What lies outside the Titles collection.
discState == <<disc, discMixdowns, audioTrackStates, subtitleTrackStates, chapters>>

vars == <<title, titles, titlesById, titlesByTitleNumber, titlesByOrderNumber,
          hash, policy, other, discState, flags, result, lastOp, raised>>

\* Title.__init__ / Title.clear
NewTitle ==
    [titleNumber |-> 0, vts |-> 0, ttn |-> 0, cells |-> <<0, 0>>, blocks |-> 0,
     duration |-> <<>>, size |-> <<0, 0>>, pixelAspectRatio |-> "",
     displayAspectRatio |-> "0.0", framesPerSecond |-> "0.0",
     chapters |-> <<>>, audioTracks |-> <<>>, subtitleTracks |-> <<>>,
     selected |-> FALSE, orderNumber |-> 0, currentObjectType |-> "None",
     visible |-> TRUE]

\* Disc.clear: the attribute the visibility policy is copied from.
NewDisc == [hideShortTitles |-> FALSE]

\* The states an AudioTrackStates and a SubtitleTrackStates hold: count=3.
StateCount == 3

\* An attribute that may be None: <<>> is None, <<v>> is the value v.
MIXDOWN_DEFAULT == <<"">>

\* AudioTrackState.__init__ / AudioTrackState.clear
NewAudioTrackState(index) ==
    [index |-> index, track |-> "", primaryMixdown |-> MIXDOWN_DEFAULT,
     secondaryMixdown |-> MIXDOWN_DEFAULT]

\* AudioTrackStates.__init__
NewAudioTrackStates ==
    [processChoice |-> "Default",
     audioTrackStates |-> [i \in 1..StateCount |-> NewAudioTrackState(i - 1)]]

\* SubtitleTrackState.__init__ / SubtitleTrackState.clear
NewSubtitleTrackState(index) ==
    [index |-> index, track |-> "", forced |-> FALSE, burn |-> FALSE,
     default |-> FALSE]

\* SubtitleTrackStates.__init__
NewSubtitleTrackStates ==
    [processChoice |-> "Default",
     subtitleTrackStates |-> [i \in 1..StateCount |-> NewSubtitleTrackState(i - 1)]]

\* Chapter.clear, for the attributes the collection reads and writes.
NewChapter == [chapterNumber |-> 0, duration |-> <<>>, cumulativeDuration |-> <<>>]

\* One Chapter object more than a full collection holds.
MaxChapters == 2
ChapterIds == 1..(MaxChapters + 1)

\* Chapters.__init__: chapter maps the identity of a Chapter object to its
\* attributes.
NewChapters ==
    [chapter |-> [i \in ChapterIds |-> NewChapter], chapters |-> <<>>,
     chaptersByChapterNumber |-> <<>>,
     lowestChapterNumber |-> 0, highestChapterNumber |-> 0]

\* The objects outside the Titles collection, as constructed.
DiscInit ==
    /\ disc = NewDisc
    /\ discMixdowns = <<>>
    /\ audioTrackStates = NewAudioTrackStates
    /\ subtitleTrackStates = NewSubtitleTrackStates
    /\ chapters = NewChapters

\* TitleVisibleSingleton.__new__
NewPolicy == [minimumTitleSeconds |-> 30, hideShortTitles |-> FALSE]

NoResult == [matchingTitles |-> <<>>, longestMatchingTitle |-> NoTitle,
             defaultTitle |-> NoTitle, longestTitle |-> NoTitle]

\* An object nothing refers to any more is gone: its attributes are forgotten.
Referenced(seq, byId, byTn, byOn) ==
    Range(seq) \cup Range(byId) \cup Range(byTn) \cup Range(byOn)

Collect(t, seq, byId, byTn, byOn) ==
    [i \in Ids |-> IF i \in Referenced(seq, byId, byTn, byOn) THEN t[i] ELSE NewTitle]

\* ------------------------------------------------------- durations, visible
\* Helpers.DurationAsTimedelta, in seconds, for a duration that is set.
DurationAsTimedelta(duration) ==
    duration[1] * 3600 + duration[2] * 60 + duration[3]

\* Mutant of RefreshVisibleValue: a title with exactly the minimum duration
\* stays visible.
RefreshVisibleStrict(t, p) ==
    IF p.hideShortTitles /\ t.duration # <<>>
    THEN ~(DurationAsTimedelta(t.duration) < p.minimumTitleSeconds)
    ELSE TRUE

\* Title.RefreshVisible: the value it leaves in visible.
RefreshVisibleValue(t, p) ==
    IF p.hideShortTitles /\ t.duration # <<>>
    THEN ~(DurationAsTimedelta(t.duration) <= p.minimumTitleSeconds)
    ELSE TRUE

\* Titles.RefreshVisible
RefreshVisibleAll(t, seq, p) ==
    [i \in Ids |-> IF i \in Range(seq)
                   THEN [t[i] EXCEPT !.visible = RefreshVisibleValue(t[i], p)]
                   ELSE t[i]]

\* -------------------------------------------------------------------- hash
\* An audio or subtitle track description is modelled by what the regular
\* expressions of the track classes find in it: iso is the iso639-2 code
\* ("" when there is none), ch the two digits of "(d.d ch)" (<<>> when there
\* are none), dolby whether it holds "(Dolby Surround)".
NoDescription == [iso |-> "", ch |-> <<>>, dolby |-> FALSE]

\* AudioTrack.language / SubtitleTrack.language: <<>> is None, <<l>> is l.
Language(description) ==
    IF description = NoDescription THEN <<>>
    ELSE IF description.iso = "" THEN <<>> ELSE <<description.iso>>

\* AudioTrack.channels: <<>> is None, <<c>> is c.
Channels(description) ==
    IF description = NoDescription THEN <<>>
    ELSE IF description.ch # <<>> THEN <<description.ch[1] + description.ch[2]>>
    ELSE IF description.dolby THEN <<2>>
    ELSE <<>>

\* What '{}'.format prints for a string or None, and for an integer or None.
FormatString(v) == IF v = <<>> THEN "None" ELSE v[1]
FormatInt(v) == IF v = <<>> THEN "None" ELSE ToString(v[1])

\* Mutant of AudioTrackHashString: the channels are left out.
AudioTrackHashStringNoChannels(a) ==
    "Audio Track: " \o ToString(a.trackNumber)
    \o ", Hertz: " \o ToString(a.hertz)
    \o ", Bits Per Second: " \o ToString(a.bitsPerSecond)
    \o ", Language: " \o FormatString(Language(a.description))

AudioTrackHashString(a) ==
    "Audio Track: " \o ToString(a.trackNumber)
    \o ", Hertz: " \o ToString(a.hertz)
    \o ", Bits Per Second: " \o ToString(a.bitsPerSecond)
    \o ", Language: " \o FormatString(Language(a.description))
    \o ", Channels: " \o FormatInt(Channels(a.description))

SubtitleTrackHashString(s) ==
    "Subtitle Track: " \o ToString(s.trackNumber)
    \o ", Language: " \o FormatString(Language(s.description))

ChapterHashString(c) ==
    "Chapter Number: " \o ToString(c.chapterNumber)
    \o ", First Cell: " \o ToString(c.cells[1])
    \o ", Last Cell: " \o ToString(c.cells[2])
    \o ", Blocks: " \o ToString(c.blocks)

\* Mutant of TitleHashString: the duration is part of the string.
TitleHashStringWithDuration(t) ==
    "TitleNumber: " \o ToString(t.titleNumber)
    \o ", VTS: " \o ToString(t.vts)
    \o ", TTN: " \o ToString(t.ttn)
    \o ", First Cell: " \o ToString(t.cells[1])
    \o ", Last Cell: " \o ToString(t.cells[2])
    \o ", Blocks: " \o ToString(t.blocks)
    \o ", Duration: " \o ToString(t.duration)
    \o ", Width: " \o ToString(t.size[1])
    \o ", Height: " \o ToString(t.size[2])
    \o ", Pixel Aspect Ratio " \o t.pixelAspectRatio
    \o ", Display Aspect Ratio " \o t.displayAspectRatio
    \o ", Frames Per Second " \o t.framesPerSecond

TitleHashString(t) ==
    "TitleNumber: " \o ToString(t.titleNumber)
    \o ", VTS: " \o ToString(t.vts)
    \o ", TTN: " \o ToString(t.ttn)
    \o ", First Cell: " \o ToString(t.cells[1])
    \o ", Last Cell: " \o ToString(t.cells[2])
    \o ", Blocks: " \o ToString(t.blocks)
    \o ", Width: " \o ToString(t.size[1])
    \o ", Height: " \o ToString(t.size[2])
    \o ", Pixel Aspect Ratio " \o t.pixelAspectRatio
    \o ", Display Aspect Ratio " \o t.displayAspectRatio
    \o ", Frames Per Second " \o t.framesPerSecond

RECURSIVE UpdateAll(_, _, _)
\* for item in items: hash.update(item.hashString): the bytes fed so far.
UpdateAll(stream, items, kind) ==
    IF items = <<>> THEN stream
    ELSE UpdateAll(stream \o (CASE kind = "audio" -> AudioTrackHashString(Head(items))
                                [] kind = "subtitle" -> SubtitleTrackHashString(Head(items))
                                [] OTHER -> ChapterHashString(Head(items))),
                   Tail(items), kind)

\* Title.UpdateHash: the bytes fed to the hash object after the call.
UpdateHash(stream, t) ==
    LET s1 == stream \o TitleHashString(t)
        s2 == s1 \o "Audio Track Count: " \o ToString(Len(t.audioTracks))
                 \o ", Subtitle Track Count: " \o ToString(Len(t.subtitleTracks))
                 \o ", Chapter Count: " \o ToString(Len(t.chapters))
        s3 == UpdateAll(s2, t.audioTracks, "audio")
        s4 == UpdateAll(s3, t.subtitleTracks, "subtitle")
    IN UpdateAll(s4, t.chapters, "chapter")

\* hashlib.sha256().hexdigest(): SHA-256 is taken to be injective, so the
\* digest stands for the bytes it was fed.
HexDigest(stream) == "sha256(" \o stream \o ")"

\* Mutant of HashTitleKeys: the title numbers in order-number order.
OrderedTitleKeys(byTn) ==
    LET keys == SetToSortedSeq(DOMAIN titlesByOrderNumber)
    IN [k \in 1..Len(keys) |-> title[titlesByOrderNumber[keys[k]]].titleNumber]

\* The keys GetHash visits, in the order it visits them.
HashTitleKeys(byTn) == SetToSortedSeq(DOMAIN byTn)

RECURSIVE UpdateTitles(_, _, _, _)
UpdateTitles(stream, keys, byTn, t) ==
    IF keys = <<>> THEN stream
    ELSE UpdateTitles(UpdateHash(stream, t[byTn[Head(keys)]]), Tail(keys), byTn, t)

\* Titles.GetHash on a collection given by its parts.
GetHashOf(seq, byTn, t) ==
    HexDigest(UpdateTitles("Title Count: " \o ToString(Len(seq)),
                           HashTitleKeys(byTn), byTn, t))

GetHash == GetHashOf(titles, titlesByTitleNumber, title)

\* --------------------------------------------- insert / replace / delete
\* Mutant of AddToIndices: the order-number dictionary is not updated.
AddToIndicesNoOrder(ix, obj, t) ==
    [byId |-> Put(ix.byId, obj, obj),
     byTn |-> Put(ix.byTn, t[obj].titleNumber, obj),
     byOn |-> ix.byOn,
     raised |-> "none"]

\* The three assignments that close insert and __setitem__.
AddToIndices(ix, obj, t) ==
    [byId |-> Put(ix.byId, obj, obj),
     byTn |-> Put(ix.byTn, t[obj].titleNumber, obj),
     byOn |-> Put(ix.byOn, t[obj].orderNumber, obj),
     raised |-> "none"]

\* The three dict.pop calls that open __setitem__ and __delitem__: a pop of
\* a key that is absent raises KeyError, after the pops before it.
RemoveFromIndices(ix, old, t) ==
    IF old \notin DOMAIN ix.byId
    THEN [ix EXCEPT !.raised = "KeyError"]
    ELSE IF t[old].titleNumber \notin DOMAIN ix.byTn
    THEN [ix EXCEPT !.byId = Pop(@, old), !.raised = "KeyError"]
    ELSE IF t[old].orderNumber \notin DOMAIN ix.byOn
    THEN [ix EXCEPT !.byId = Pop(@, old),
                    !.byTn = Pop(@, t[old].titleNumber),
                    !.raised = "KeyError"]
    ELSE [ix EXCEPT !.byId = Pop(@, old),
                    !.byTn = Pop(@, t[old].titleNumber),
                    !.byOn = Pop(@, t[old].orderNumber)]

Indices == [byId |-> titlesById, byTn |-> titlesByTitleNumber,
            byOn |-> titlesByOrderNumber, raised |-> "none"]

\* The title numbers of the titles in the sequence, but for position skip.
MemberTitleNumbers(skip) ==
    {title[titles[i]].titleNumber : i \in (DOMAIN titles) \ {skip}}

\* A Title the caller has constructed and numbered, not yet in a collection.
FreshTitle(tn, on) == [NewTitle EXCEPT !.titleNumber = tn, !.orderNumber = on]

FreeIds == Ids \ Referenced(titles, titlesById, titlesByTitleNumber, titlesByOrderNumber)

\* The identity of the next object constructed, a Title to be numbered tn:
\* which free identity the allocator hands out makes no difference to any
\* operation.
NewId(tn) == IF tn \in FreeIds THEN tn ELSE Min(FreeIds)

\* An exception no method of the collection catches ends the run: nothing
\* is called on the collection after it.
Running == raised = "none"

\* What the operations on the collection leave alone.
CollectionFrame == UNCHANGED <<hash, policy, other, discState, flags, result>>

\* Titles.insert(idx, obj), obj a Title numbered tn, which no member carries,
\* with order number on.
\* append(obj) is insert(len(self), obj).
Insert(idx, tn, on) ==
    /\ Running
    /\ Len(titles) < MaxMembers
    /\ idx \in 0..Len(titles)
    /\ tn \notin MemberTitleNumbers(0)
    /\ on \in MemberOrders
    /\ FreeIds # {}
    /\ LET obj == NewId(tn)
           t == [title EXCEPT ![obj] = FreshTitle(tn, on)]
           ix == AddToIndices(Indices, obj, t)
       IN /\ titles' = ListInsert(titles, idx, obj)
          /\ titlesById' = ix.byId
          /\ titlesByTitleNumber' = ix.byTn
          /\ titlesByOrderNumber' = ix.byOn
          /\ title' = t
    /\ lastOp' = "insert"
    /\ raised' = "none"
    /\ CollectionFrame

\* Titles.__setitem__(idx, obj), idx in range.
SetItem(idx, tn, on) ==
    /\ Running
    /\ idx \in DOMAIN titles
    /\ tn \notin MemberTitleNumbers(idx)
    /\ on \in MemberOrders
    /\ FreeIds # {}
    /\ LET obj == NewId(tn)
           t == [title EXCEPT ![obj] = FreshTitle(tn, on)]
           popped == RemoveFromIndices(Indices, titles[idx], t)
           ok == popped.raised = "none"
           ix == IF ok THEN AddToIndices(popped, obj, t) ELSE popped
           seq == IF ok THEN [titles EXCEPT ![idx] = obj] ELSE titles
       IN /\ titles' = seq
          /\ titlesById' = ix.byId
          /\ titlesByTitleNumber' = ix.byTn
          /\ titlesByOrderNumber' = ix.byOn
          /\ title' = Collect(t, seq, ix.byId, ix.byTn, ix.byOn)
          /\ raised' = popped.raised
    /\ lastOp' = "__setitem__"
    /\ CollectionFrame

\* Titles.__delitem__(idx), idx in range.
DelItem(idx) ==
    /\ Running
    /\ idx \in DOMAIN titles
    /\ LET ix == RemoveFromIndices(Indices, titles[idx], title)
           seq == IF ix.raised = "none" THEN ListDelete(titles, idx) ELSE titles
       IN /\ titles' = seq
          /\ titlesById' = ix.byId
          /\ titlesByTitleNumber' = ix.byTn
          /\ titlesByOrderNumber' = ix.byOn
          /\ title' = Collect(title, seq, ix.byId, ix.byTn, ix.byOn)
          /\ raised' = ix.raised
    /\ lastOp' = "__delitem__"
    /\ CollectionFrame

\* Titles.clear
Clear ==
    /\ Running
    /\ titles' = <<>>
    /\ titlesById' = EmptyDict
    /\ titlesByTitleNumber' = EmptyDict
    /\ titlesByOrderNumber' = EmptyDict
    /\ title' = [i \in Ids |-> NewTitle]
    /\ lastOp' = "clear"
    /\ raised' = "none"
    /\ CollectionFrame

\* ------------------------------------------------------------ natural order
\* Mutant of SortedTitleNumbers: the keys are not sorted, they come in the
\* order of the sequence.
UnsortedTitleNumbers(byTn) ==
    [i \in 1..Len(titles) |-> title[titles[i]].titleNumber]

\* sorted(self.titlesByTitleNumber.keys())
SortedTitleNumbers(byTn) == SetToSortedSeq(DOMAIN byTn)

\* The titlesByOrderNumber that SetNaturalTitleOrder builds.
NaturalOrder(byTn) ==
    LET keys == SortedTitleNumbers(byTn)
    IN [k \in 0..(Len(keys) - 1) |-> byTn[keys[k + 1]]]

\* The attributes after "title.orderNumber = ..." for every entry of byOn, in
\* ascending key order (the last assignment to an object stands).
WithOrderNumbers(t, byOn) ==
    [i \in Ids |->
        IF i \in Range(byOn)
        THEN [t[i] EXCEPT !.orderNumber =
                  CHOOSE k \in DOMAIN byOn :
                      byOn[k] = i /\ \A j \in DOMAIN byOn : byOn[j] = i => j <= k]
        ELSE t[i]]

\* Titles.SetNaturalTitleOrder
SetNaturalTitleOrder ==
    /\ Running
    /\ titlesByOrderNumber' = NaturalOrder(titlesByTitleNumber)
    /\ title' = Collect(WithOrderNumbers(title, NaturalOrder(titlesByTitleNumber)),
                        titles, titlesById, titlesByTitleNumber,
                        NaturalOrder(titlesByTitleNumber))
    /\ lastOp' = "SetNaturalTitleOrder"
    /\ raised' = "none"
    /\ UNCHANGED <<titles, titlesById, titlesByTitleNumber>>
    /\ CollectionFrame

\* ------------------------------------------------------------------ lookups
\* Titles.GetByTitleNumber / Titles.GetByOrderNumber
GetByTitleNumber(byTn, titleNumber) ==
    IF titleNumber \in DOMAIN byTn THEN byTn[titleNumber] ELSE NoTitle

GetByOrderNumber(byOn, orderNumber) ==
    IF orderNumber \in DOMAIN byOn THEN byOn[orderNumber] ELSE NoTitle

\* ----------------------------------------------------------------- moving
\* The state a move works on: the attributes, the order dictionary, the loop
\* variable i (<<k>> when it is k, <<>> while it is unbound) and the exception
\* raised.
MoveState == [t |-> title, byOn |-> titlesByOrderNumber, i |-> <<>>,
              raised |-> "none"]

\* One iteration of the loops: the title at order number from moves to order
\* number i.  GetByOrderNumber returning None makes the assignment to
\* swapTitle.orderNumber raise AttributeError.
SwapStep(st, i, from) ==
    LET swapTitle == GetByOrderNumber(st.byOn, from)
    IN IF swapTitle = NoTitle
       THEN [st EXCEPT !.i = <<i>>, !.raised = "AttributeError"]
       ELSE [t |-> [st.t EXCEPT ![swapTitle].orderNumber = i],
             byOn |-> Put(st.byOn, i, swapTitle),
             i |-> <<i>>, raised |-> "none"]

\* Whether MoveDown and MoveUp leave their loop after the iteration: the
\* title just swapped is visible.
BreakAfter(st, i) == st.t[st.byOn[i]].visible

RECURSIVE LoopUpward(_, _, _, _)
\* for i in range(i, last): ... (with the break of MoveDown when stopAtVisible)
LoopUpward(st, i, last, stopAtVisible) ==
    IF i >= last THEN st
    ELSE LET nxt == SwapStep(st, i, i + 1)
         IN IF nxt.raised # "none" THEN nxt
            ELSE IF stopAtVisible /\ BreakAfter(nxt, i) THEN nxt
            ELSE LoopUpward(nxt, i + 1, last, stopAtVisible)

RECURSIVE LoopDownward(_, _, _)
\* for i in range(i, 0, -1): ... (with the break of MoveUp when stopAtVisible)
LoopDownward(st, i, stopAtVisible) ==
    IF i <= 0 THEN st
    ELSE LET nxt == SwapStep(st, i, i - 1)
         IN IF nxt.raised # "none" THEN nxt
            ELSE IF stopAtVisible /\ BreakAfter(nxt, i) THEN nxt
            ELSE LoopDownward(nxt, i - 1, stopAtVisible)

\* Mutant of Place: the title placed is made visible as well.
PlaceShowing(st, obj, k) ==
    IF st.raised # "none" THEN st
    ELSE [st EXCEPT !.t = [@ EXCEPT ![obj].orderNumber = k, ![obj].visible = TRUE],
                    !.byOn = Put(@, k, obj)]

\* "title.orderNumber = k; self.titlesByOrderNumber[k] = title", unless the
\* loop raised.
Place(st, obj, k) ==
    IF st.raised # "none" THEN st
    ELSE [st EXCEPT !.t = [@ EXCEPT ![obj].orderNumber = k],
                    !.byOn = Put(@, k, obj)]

\* lastOrderNumber = self.titles[-1].orderNumber
LastOrderNumber == title[titles[Len(titles)]].orderNumber

\* The four moves, as the state they leave.
MoveBottomResult(obj) ==
    IF title[obj].orderNumber = LastOrderNumber THEN MoveState
    ELSE Place(LoopUpward(MoveState, title[obj].orderNumber, LastOrderNumber, FALSE),
               obj, LastOrderNumber)

MoveDownResult(obj) ==
    IF title[obj].orderNumber = LastOrderNumber THEN MoveState
    ELSE LET st == LoopUpward(MoveState, title[obj].orderNumber, LastOrderNumber, TRUE)
         IN IF st.raised # "none" THEN st
            ELSE IF st.i = <<>> THEN [st EXCEPT !.raised = "UnboundLocalError"]
            ELSE Place(st, obj, st.i[1] + 1)

MoveTopResult(obj) ==
    IF title[obj].orderNumber = 0 THEN MoveState
    ELSE Place(LoopDownward(MoveState, title[obj].orderNumber, FALSE), obj, 0)

MoveUpResult(obj) ==
    IF title[obj].orderNumber = 0 THEN MoveState
    ELSE LET st == LoopDownward(MoveState, title[obj].orderNumber, TRUE)
         IN IF st.raised # "none" THEN st
            ELSE IF st.i = <<>> THEN [st EXCEPT !.raised = "UnboundLocalError"]
            ELSE Place(st, obj, st.i[1] - 1)

\* A move of member obj that leaves state st.
Moved(obj, st, name) ==
    /\ Running
    /\ obj \in Range(titles)
    /\ title' = st.t
    /\ titlesByOrderNumber' = st.byOn
    /\ raised' = st.raised
    /\ lastOp' = name
    /\ UNCHANGED <<titles, titlesById, titlesByTitleNumber>>
    /\ CollectionFrame

MoveBottom(obj) == Moved(obj, MoveBottomResult(obj), "MoveBottom")
MoveDown(obj) == Moved(obj, MoveDownResult(obj), "MoveDown")
MoveTop(obj) == Moved(obj, MoveTopResult(obj), "MoveTop")
MoveUp(obj) == Moved(obj, MoveUpResult(obj), "MoveUp")


\* ------------------------------------------------------------------- Spec
\* A new Titles: Titles.__init__.
InitEmpty ==
    /\ title = [i \in Ids |-> NewTitle]
    /\ titles = <<>>
    /\ titlesById = EmptyDict
    /\ titlesByTitleNumber = EmptyDict
    /\ titlesByOrderNumber = EmptyDict
    /\ hash = "None"
    /\ policy = NewPolicy
    /\ other = <<>>
    /\ DiscInit
    /\ flags = 0
    /\ result = NoResult
    /\ lastOp = "__init__"
    /\ raised = "none"

Init == InitEmpty

Next ==
    \/ \E idx \in 0..MaxMembers, tn \in MemberNumbers, on \in MemberOrders :
           Insert(idx, tn, on)
    \/ \E idx \in 1..MaxMembers, tn \in MemberNumbers, on \in MemberOrders :
           SetItem(idx, tn, on)
    \/ \E idx \in 1..MaxMembers : DelItem(idx)
    \/ Clear
    \/ SetNaturalTitleOrder

Spec == Init /\ [][Next]_vars

\* --------------------------------------------------------------- SpecMove
\* A collection of n titles as a load leaves it: the three dictionaries
\* hold every title, the order numbers are those of SetNaturalTitleOrder or
\* of the XML file (a permutation of 0..n-1), the visible flags are any, and
\* hash is the hash of the contents.
Loaded(n, tn, on, sel, vis, dur) ==
    /\ title = [i \in Ids |->
                   IF i <= n
                   THEN [NewTitle EXCEPT !.titleNumber = tn[i], !.orderNumber = on[i],
                                         !.selected = sel[i], !.visible = vis[i],
                                         !.duration = dur[i]]
                   ELSE NewTitle]
    /\ titles = [i \in 1..n |-> i]
    /\ titlesById = [i \in 1..n |-> i]
    /\ titlesByTitleNumber = [k \in {tn[i] : i \in 1..n} |-> CHOOSE i \in 1..n : tn[i] = k]
    /\ titlesByOrderNumber = [k \in {on[i] : i \in 1..n} |-> CHOOSE i \in 1..n : on[i] = k]
    /\ hash = GetHash
    /\ policy = NewPolicy
    /\ other = <<>>
    /\ DiscInit
    /\ flags = 0
    /\ result = NoResult
    /\ raised = "none"

InitMove ==
    \E n \in 1..MaxTitles :
        \E tn \in [1..n -> TitleNumbers], on \in [1..n -> 0..(n - 1)],
           vis \in [1..n -> BOOLEAN] :
            /\ Injective(tn)
            /\ Injective(on)
            /\ Loaded(n, tn, on, [i \in 1..n |-> FALSE], vis, [i \in 1..n |-> <<>>])
            /\ lastOp = "load"

NextMove ==
    \/ \E obj \in Ids : MoveBottom(obj)
    \/ \E obj \in Ids : MoveDown(obj)
    \/ \E obj \in Ids : MoveTop(obj)
    \/ \E obj \in Ids : MoveUp(obj)
    \/ SetNaturalTitleOrder

SpecMove == InitMove /\ [][NextMove]_vars

\* ------------------------------------------------------ GetMatchingTitles
FLAG_SELECTED == 1
FLAG_VISIBLE == 2

\* Mutant of WantVisible: FLAG_VISIBLE is not looked at.
WantVisibleIgnored(fl) == FALSE

\* flags & FLAG_SELECTED, flags & FLAG_VISIBLE, as truth values.
WantSelected(fl) == (fl \div FLAG_SELECTED) % 2 = 1
WantVisible(fl) == (fl \div FLAG_VISIBLE) % 2 = 1

\* Titles.HasTitles
HasTitles == Len(titles) > 0

\* Titles.ClearFlaggedAttributes
ClearFlaggedAttributes(fl) ==
    /\ Running
    /\ title' = [i \in Ids |->
                    IF i \in Range(titles)
                    THEN [title[i] EXCEPT
                              !.selected = IF WantSelected(fl) THEN FALSE ELSE @,
                              !.visible = IF WantVisible(fl) THEN FALSE ELSE @]
                    ELSE title[i]]
    /\ flags' = fl
    /\ lastOp' = "ClearFlaggedAttributes"
    /\ UNCHANGED <<titles, titlesById, titlesByTitleNumber, titlesByOrderNumber,
                   hash, policy, other, discState, result, raised>>

\* Mutant of MatchTitleKeys: the keys in the order of the titles sequence.
SequenceTitleKeys == [i \in 1..Len(titles) |-> title[titles[i]].orderNumber]

\* titleKeys = sorted(self.titlesByOrderNumber.keys())
MatchTitleKeys == SetToSortedSeq(DOMAIN titlesByOrderNumber)

\* The locals of GetMatchingTitles before its loop.
MatchState ==
    [matchingTitles |-> <<>>,
     longestTitle |-> titles[1],
     longestTitleLength |-> DurationAsTimedelta(title[titles[1]].duration),
     firstSelectedVisibleTitle |-> NoTitle,
     firstSelectedTitle |-> NoTitle,
     firstVisibleTitle |-> NoTitle]

RECURSIVE ScanTitles(_, _, _)
\* The first loop of GetMatchingTitles, over the keys left to visit.
ScanTitles(st, keys, fl) ==
    IF keys = <<>> THEN st
    ELSE LET obj == titlesByOrderNumber[Head(keys)]
             t == title[obj]
             s1 == [st EXCEPT
                       !.firstSelectedVisibleTitle =
                           IF t.selected /\ t.visible /\ @ = NoTitle THEN obj ELSE @,
                       !.firstSelectedTitle =
                           IF t.selected /\ @ = NoTitle THEN obj ELSE @,
                       !.firstVisibleTitle =
                           IF t.visible /\ @ = NoTitle THEN obj ELSE @]
             titleLength == DurationAsTimedelta(t.duration)
             s2 == IF titleLength > s1.longestTitleLength
                   THEN [s1 EXCEPT !.longestTitleLength = titleLength,
                                   !.longestTitle = obj]
                   ELSE s1
             s3 == IF (WantSelected(fl) /\ ~t.selected) \/ (WantVisible(fl) /\ ~t.visible)
                   THEN s2
                   ELSE [s2 EXCEPT !.matchingTitles = Append(@, obj)]
         IN ScanTitles(s3, Tail(keys), fl)

RECURSIVE LongestMatching(_, _, _)
\* The second loop: longestMatchingTitleLength is the length of the longest
\* title of all and is never assigned again (the loop assigns
\* longestMatchingTitle twice).
LongestMatching(longestMatchingTitle, longestMatchingTitleLength, matching) ==
    IF matching = <<>> THEN longestMatchingTitle
    ELSE LET titleLength == DurationAsTimedelta(title[Head(matching)].duration)
         IN LongestMatching(IF titleLength > longestMatchingTitleLength
                            THEN Head(matching)
                            ELSE longestMatchingTitle,
                            longestMatchingTitleLength, Tail(matching))

\* The default title, when no title passed the filters.
DefaultTitle(st) ==
    IF st.firstSelectedVisibleTitle # NoTitle THEN st.firstSelectedVisibleTitle
    ELSE IF st.firstSelectedTitle # NoTitle THEN st.firstSelectedTitle
    ELSE IF st.firstVisibleTitle # NoTitle THEN st.firstVisibleTitle
    ELSE titles[1]

\* The MatchingTitles tuple GetMatchingTitles returns once its loop is done.
MatchingTitles(st) ==
    IF Len(st.matchingTitles) > 0
    THEN [matchingTitles |-> st.matchingTitles,
          longestMatchingTitle |->
              LongestMatching(st.matchingTitles[1],
                              DurationAsTimedelta(title[st.longestTitle].duration),
                              st.matchingTitles),
          defaultTitle |-> NoTitle,
          longestTitle |-> st.longestTitle]
    ELSE [matchingTitles |-> st.matchingTitles,
          longestMatchingTitle |-> NoTitle,
          defaultTitle |-> DefaultTitle(st),
          longestTitle |-> st.longestTitle]

\* Mutant of GetMatchingTitlesResult: an empty collection gives the empty
\* result instead of an exception.
GetMatchingTitlesLenient(fl, optimize) ==
    IF ~HasTitles THEN [raised |-> "none", value |-> NoResult]
    ELSE [raised |-> "none",
          value |-> MatchingTitles(ScanTitles(MatchState, MatchTitleKeys, fl))]

\* Titles.GetMatchingTitles: what it raises and what it returns.  On an empty
\* collection the assert fails; in a build without asserts (python -O)
\* self.titles[0] raises IndexError.  A title whose duration is '' makes
\* DurationAsTimedelta raise ValueError.
GetMatchingTitlesResult(fl, optimize) ==
    IF ~HasTitles
    THEN [raised |-> IF optimize THEN "IndexError" ELSE "AssertionError",
          value |-> result]
    ELSE IF \E i \in {titles[1]} \cup Range(titlesByOrderNumber) : title[i].duration = <<>>
    THEN [raised |-> "ValueError", value |-> result]
    ELSE [raised |-> "none",
          value |-> MatchingTitles(ScanTitles(MatchState, MatchTitleKeys, fl))]

GetMatchingTitles(fl, optimize) ==
    /\ Running
    /\ LET r == GetMatchingTitlesResult(fl, optimize)
       IN /\ result' = r.value
          /\ raised' = r.raised
    /\ flags' = fl
    /\ lastOp' = "GetMatchingTitles"
    /\ UNCHANGED <<title, titles, titlesById, titlesByTitleNumber,
                   titlesByOrderNumber, hash, policy, other, discState>>

\* -------------------------------------------------------------- SpecMatch
\* The durations of the titles: 20 seconds, and one minute written twice.
Durations == {<<0, 0, 20>>, <<0, 1, 0>>, <<0, 0, 60>>}
FlagValues == 0..(FLAG_SELECTED + FLAG_VISIBLE)

\* A loaded collection of 0..MaxMatchTitles titles numbered 1..n, in any
\* order, each with a duration, selected or not, visible or not.
InitMatch ==
    \E n \in 0..MaxMatchTitles :
        \E on \in [1..n -> 0..(n - 1)], sel \in [1..n -> BOOLEAN],
           vis \in [1..n -> BOOLEAN], dur \in [1..n -> Durations] :
            /\ Injective(on)
            /\ Loaded(n, [i \in 1..n |-> i], on, sel, vis, dur)
            /\ lastOp = "load"

NextMatch ==
    \/ \E fl \in FlagValues, optimize \in BOOLEAN : GetMatchingTitles(fl, optimize)
    \/ \E fl \in FlagValues : ClearFlaggedAttributes(fl)

SpecMatch == InitMatch /\ [][NextMatch]_vars

\* --------------------------------------------------------------- SpecHash
\* The k-th chapter, audio track and subtitle track of a scanned title.
ScannedChapter(k) ==
    [chapterNumber |-> k, cells |-> <<k, k>>, blocks |-> 10 * k,
     duration |-> <<0, 1, 0>>]
ScannedAudioTrack(k) ==
    [trackNumber |-> k, description |-> [iso |-> "eng", ch |-> <<5, 1>>, dolby |-> FALSE],
     hertz |-> 48000, bitsPerSecond |-> 448000]
ScannedSubtitleTrack(k) ==
    [trackNumber |-> k, description |-> [iso |-> "eng", ch |-> <<>>, dolby |-> FALSE]]

\* Title number tn with nc chapters, na audio tracks and ns subtitle tracks.
ScannedTitle(tn, nc, na, ns) ==
    [NewTitle EXCEPT !.titleNumber = tn, !.orderNumber = tn - 1,
                     !.duration = <<0, 1, 0>>,
                     !.chapters = [k \in 1..nc |-> ScannedChapter(k)],
                     !.audioTracks = [k \in 1..na |-> ScannedAudioTrack(k)],
                     !.subtitleTracks = [k \in 1..ns |-> ScannedSubtitleTrack(k)]]

\* What a description may hold.
Descriptions ==
    [iso : {"", "eng", "fra"}, ch : {<<>>, <<2, 0>>, <<5, 1>>}, dolby : BOOLEAN]

\* Other values of an integer field.
OtherNumbers(v) == {0, v + 1} \ {v}

\* The items that differ from item x in one attribute.
OtherChapters(x) ==
    {[x EXCEPT !.chapterNumber = v] : v \in OtherNumbers(x.chapterNumber)}
    \cup {[x EXCEPT !.cells[1] = v] : v \in OtherNumbers(x.cells[1])}
    \cup {[x EXCEPT !.cells[2] = v] : v \in OtherNumbers(x.cells[2])}
    \cup {[x EXCEPT !.blocks = v] : v \in OtherNumbers(x.blocks)}
    \cup {[x EXCEPT !.duration = d] : d \in Durations \ {x.duration}}
OtherAudioTracks(x) ==
    {[x EXCEPT !.trackNumber = v] : v \in OtherNumbers(x.trackNumber)}
    \cup {[x EXCEPT !.hertz = v] : v \in OtherNumbers(x.hertz)}
    \cup {[x EXCEPT !.bitsPerSecond = v] : v \in OtherNumbers(x.bitsPerSecond)}
    \cup {[x EXCEPT !.description = d] :
              d \in {e \in Descriptions \ {x.description} :
                         \/ Language(e) = Language(x.description)
                         \/ Channels(e) = Channels(x.description)}}
OtherSubtitleTracks(x) ==
    {[x EXCEPT !.trackNumber = v] : v \in OtherNumbers(x.trackNumber)}
    \cup {[x EXCEPT !.description.iso = v] : v \in {"", "eng", "fra"} \ {x.description.iso}}

\* The lists that have one item more or one item less than list s.
OtherCounts(s, new) ==
    {Append(s, new)} \cup (IF s = <<>> THEN {} ELSE {SubSeq(s, 1, Len(s) - 1)})

\* Title t with every duration, its own and its chapters', set to d.
WithDurations(t, d) ==
    [t EXCEPT !.duration = d,
              !.chapters = [p \in DOMAIN @ |-> [@[p] EXCEPT !.duration = d]]]

\* The titles that differ from title t in one attribute of one item, in the
\* number of items of one kind, or in durations only.
OtherTitlesOf(t) ==
    {[t EXCEPT !.duration = d] : d \in Durations \ {t.duration}}
    \cup {WithDurations(t, d) : d \in Durations \ {t.duration}}
    \cup UNION {{[t EXCEPT !.chapters[p] = x] : x \in OtherChapters(t.chapters[p])} :
                     p \in DOMAIN t.chapters}
    \cup UNION {{[t EXCEPT !.audioTracks[p] = x] : x \in OtherAudioTracks(t.audioTracks[p])} :
                     p \in DOMAIN t.audioTracks}
    \cup UNION {{[t EXCEPT !.subtitleTracks[p] = x] :
                      x \in OtherSubtitleTracks(t.subtitleTracks[p])} :
                     p \in DOMAIN t.subtitleTracks}
    \cup {[t EXCEPT !.chapters = s] :
              s \in OtherCounts(t.chapters, ScannedChapter(Len(t.chapters) + 1))}
    \cup {[t EXCEPT !.audioTracks = s] :
              s \in OtherCounts(t.audioTracks, ScannedAudioTrack(Len(t.audioTracks) + 1))}
    \cup {[t EXCEPT !.subtitleTracks = s] :
              s \in OtherCounts(t.subtitleTracks,
                                ScannedSubtitleTrack(Len(t.subtitleTracks) + 1))}

\* Two discs of n titles: the titles of this one, and in other the titles
\* of a second one, which differ from the first in title e only, or in the
\* durations of every title.
InitHash ==
    \E n \in 1..MaxMatchTitles, e \in 1..MaxMatchTitles :
        \E nc, na, ns \in 0..MaxItems :
            /\ e <= n
            /\ title = [i \in Ids |->
                           IF i = e THEN ScannedTitle(i, nc, na, ns)
                           ELSE IF i <= n THEN ScannedTitle(i, MaxItems, MaxItems, MaxItems)
                           ELSE NewTitle]
            /\ titles = [i \in 1..n |-> i]
            /\ titlesById = [i \in 1..n |-> i]
            /\ titlesByTitleNumber = [i \in 1..n |-> i]
            /\ titlesByOrderNumber = [k \in 0..(n - 1) |-> k + 1]
            /\ other \in {[title EXCEPT ![e] = v] : v \in OtherTitlesOf(title[e])}
                         \cup {[i \in Ids |-> IF i <= n THEN WithDurations(title[i], d)
                                              ELSE title[i]] :
                                   d \in Durations \ {<<0, 1, 0>>}}
            /\ hash = "None"
            /\ policy = NewPolicy
            /\ DiscInit
            /\ flags = 0
            /\ result = NoResult
            /\ lastOp = "load"
            /\ raised = "none"

\* GetHash is called on both discs.
GetHashes ==
    /\ Running
    /\ result' = [this |-> GetHash,
                  other |-> GetHashOf(titles, titlesByTitleNumber, other)]
    /\ lastOp' = "GetHash"
    /\ UNCHANGED <<title, titles, titlesById, titlesByTitleNumber,
                   titlesByOrderNumber, hash, policy, other, discState, flags, raised>>

NextHash == GetHashes

SpecHash == InitHash /\ [][NextHash]_vars

\* --------------------------------------------------------------- loading
\* None, as Title.Parse leaves it in orderNumber.
NoOrder == -1

\* A new Titles, or one that clear() has emptied, while it is being loaded.
Cleared == [t |-> [i \in Ids |-> NewTitle], seq |-> <<>>, byId |-> EmptyDict,
            byTn |-> EmptyDict, byOn |-> EmptyDict, raised |-> "none"]

\* self.append(title): the sequence and the three dictionaries after it.
Appended(ld, attributes) ==
    LET obj == Len(ld.seq) + 1
        t == [ld.t EXCEPT ![obj] = attributes]
        ix == AddToIndices([byId |-> ld.byId, byTn |-> ld.byTn, byOn |-> ld.byOn,
                            raised |-> "none"], obj, t)
    IN [t |-> t, seq |-> Append(ld.seq, obj), byId |-> ix.byId, byTn |-> ix.byTn,
        byOn |-> ix.byOn, raised |-> "none"]

\* Title.FromXML on a Title element given by its attributes TitleNumber,
\* Duration, Selected and OrderNumber (order is <<>> when the attribute is
\* missing) and without child elements.
TitleFromXML(element) ==
    LET t == [NewTitle EXCEPT
                 !.titleNumber = element.titleNumber,
                 !.duration = element.duration,
                 !.selected = element.selected,
                 !.orderNumber = IF element.order = <<>> THEN 0 ELSE element.order[1]]
    IN [t EXCEPT !.visible = RefreshVisibleValue(t, policy)]

RECURSIVE FromXMLElements(_, _)
\* The loop of Titles.FromXML.  An element with an AutoCrop, Chapters,
\* AudioTracks, SubtitleTracks, CustomCrop or AudioTrackStates child makes
\* Title.FromXML raise AttributeError: it calls FromXML on an object whose
\* method is fromXML.
FromXMLElements(ld, elements) ==
    IF elements = <<>> THEN ld
    ELSE IF Head(elements).child THEN [ld EXCEPT !.raised = "AttributeError"]
    ELSE FromXMLElements(Appended(ld, TitleFromXML(Head(elements))), Tail(elements))

\* The end of Titles.FromXML and of Titles.Parse: SetNaturalTitleOrder when
\* natural, then RefreshVisible; nothing of it after an exception.
Ordered(ld, natural) ==
    IF ld.raised # "none" THEN ld
    ELSE LET byOn == IF natural THEN NaturalOrder(ld.byTn) ELSE ld.byOn
             t == IF natural THEN WithOrderNumbers(ld.t, byOn) ELSE ld.t
         IN [ld EXCEPT !.byOn = byOn, !.t = RefreshVisibleAll(t, ld.seq, policy)]

\* The collection becomes ld; the hash is stored when nothing was raised.
\* FromXML and Parse return nothing.
LoadedAs(ld, name) ==
    /\ title' = ld.t
    /\ titles' = ld.seq
    /\ titlesById' = ld.byId
    /\ titlesByTitleNumber' = ld.byTn
    /\ titlesByOrderNumber' = ld.byOn
    /\ hash' = IF ld.raised = "none" THEN GetHashOf(ld.seq, ld.byTn, ld.t) ELSE hash
    /\ raised' = ld.raised
    /\ lastOp' = name
    /\ result' = NoResult
    /\ UNCHANGED <<policy, other, discState, flags>>

\* Titles.FromXML(element), element given by its Title children.
FromXML(elements) ==
    /\ Running
    /\ LoadedAs(Ordered(FromXMLElements(Cleared, elements),
                        \E k \in DOMAIN elements : elements[k].order = <<>>),
                "FromXML")

\* Title.Parse on the lines of one title of the scan: "+ title n:" and, when
\* the scan has one, "  + duration: d".
TitleParsed(block) ==
    LET t == [NewTitle EXCEPT !.titleNumber = block.titleNumber,
                              !.orderNumber = NoOrder]
    IN IF block.duration = <<>> THEN t
       ELSE [t EXCEPT !.duration = block.duration,
                      !.visible = RefreshVisibleValue([t EXCEPT !.duration = block.duration],
                                                      policy)]

RECURSIVE ParseBlocks(_, _)
\* The loop of Titles.Parse, a title at a time.  A title is appended once
\* its lines are read.  A line of a chapter, audio track or subtitle track
\* (detail) makes Title.Parse raise AttributeError: it calls Parse on an
\* object whose method is parse.
ParseBlocks(ld, blocks) ==
    IF blocks = <<>> THEN ld
    ELSE IF Head(blocks).detail THEN [ld EXCEPT !.raised = "AttributeError"]
    ELSE ParseBlocks(Appended(ld, TitleParsed(Head(blocks))), Tail(blocks))

\* Titles.Parse(buffer), buffer given by its titles.
Parse(blocks) ==
    /\ Running
    /\ LoadedAs(Ordered(ParseBlocks(Cleared, blocks), TRUE), "Parse")

\* Title.ToXML: the Title element as it stands in the document when
\* self.autoCrop.ToXML raises AttributeError (the method of AutoCrop is
\* toXML): TitleNumber, Duration and the other scan attributes are set,
\* Selected and OrderNumber are not yet, and there is no child element.
TitleToXML(t) ==
    [titleNumber |-> t.titleNumber, duration |-> t.duration, selected |-> FALSE,
     order |-> <<>>, child |-> FALSE]

\* Titles.ToXML: the Titles element written, and what is raised.  The loop
\* over the titles ends in the first Title.ToXML.
TitlesToXML ==
    [raised |-> IF titles = <<>> THEN "none" ELSE "AttributeError",
     value |-> [hash |-> hash, count |-> Len(titles),
                elements |-> IF titles = <<>> THEN <<>>
                             ELSE <<TitleToXML(title[titles[1]])>>]]

ToXML ==
    /\ Running
    /\ result' = TitlesToXML.value
    /\ raised' = TitlesToXML.raised
    /\ lastOp' = "ToXML"
    /\ UNCHANGED <<title, titles, titlesById, titlesByTitleNumber,
                   titlesByOrderNumber, hash, policy, other, discState, flags>>

\* --------------------------------------------------------------- SpecLoad
\* The Title elements of a document and the titles of a scan.
Elements ==
    [titleNumber : MemberNumbers, duration : {<<>>, <<0, 0, 20>>},
     selected : BOOLEAN, order : {<<>>} \cup {<<k>> : k \in MemberOrders},
     child : BOOLEAN]
Blocks ==
    [titleNumber : MemberNumbers, duration : {<<>>, <<0, 0, 20>>}, detail : BOOLEAN]

\* The lists of at most MaxMembers items of S with distinct title numbers.
Numbered(S) ==
    {s \in UNION {[1..n -> S] : n \in 0..MaxMembers} :
         \A i, j \in DOMAIN s : s[i].titleNumber = s[j].titleNumber => i = j}

\* The documents loaded: nothing of a document is read after the Title
\* element that makes Title.FromXML raise, so only the last element of a
\* document has a child element.
Documents ==
    {s \in Numbered(Elements) : \A k \in 1..(Len(s) - 1) : ~s[k].child}

\* The scans parsed: nothing of a scan is read after the line that makes
\* Title.Parse raise, so only the last title of a scan has a detail line.
Scans ==
    {s \in Numbered(Blocks) : \A k \in 1..(Len(s) - 1) : ~s[k].detail}

NextLoad ==
    \/ \E elements \in Documents : FromXML(elements)
    \/ \E blocks \in Scans : Parse(blocks)
    \/ \E idx \in 0..MaxMembers, tn \in MemberNumbers, on \in MemberOrders :
           Insert(idx, tn, on)
    \/ \E idx \in 1..MaxMembers, tn \in MemberNumbers, on \in MemberOrders :
           SetItem(idx, tn, on)
    \/ \E idx \in 1..MaxMembers : DelItem(idx)
    \/ Clear
    \/ ToXML

SpecLoad == InitEmpty /\ [][NextLoad]_vars

\* -------------------------------------------------------------- SpecParse
\* Title.Parse, a line at a time.  A line is given by the prefix Title.Parse
\* tests, the number it carries and the duration it carries.
MaxParsed == 2
ParsedTitles == 1..MaxParsed

TitleLines == {[kind |-> "+ title", number |-> n, duration |-> <<>>] : n \in MemberNumbers}
DurationLines == {[kind |-> "  + duration:", number |-> 0, duration |-> <<0, 0, 20>>]}
HeaderLines ==
    {[kind |-> k, number |-> 0, duration |-> <<>>] :
         k \in {"  + chapters:", "  + audio tracks:", "  + subtitle tracks:"}}
DetailLines == {[kind |-> "    +", number |-> k, duration |-> <<>>] : k \in 1..MaxItems}
Lines == TitleLines \cup DurationLines \cup HeaderLines \cup DetailLines

\* Mutant of ParseDetail: a detail line before any header is taken for a
\* chapter.
ParseDetailAsChapter(t, line) == [t |-> t, raised |-> "AttributeError"]

\* The branch of Title.Parse for a line that starts with '    +': a Chapter,
\* AudioTrack or SubtitleTrack is constructed and its Parse is called, which
\* raises AttributeError (the method of the three classes is parse) before
\* the object is appended; with no currentObjectType no branch is taken.
ParseDetail(t, line) ==
    IF t.currentObjectType \in {"Chapter", "AudioTrack", "SubtitleTrack"}
    THEN [t |-> t, raised |-> "AttributeError"]
    ELSE [t |-> t, raised |-> "none"]

\* Title.Parse(line) on title t: the title it leaves and what it raises.
TitleParseResult(t, line) ==
    IF line.kind = "+ title"
    THEN [t |-> [t EXCEPT !.titleNumber = line.number, !.orderNumber = NoOrder],
          raised |-> "none"]
    ELSE IF line.kind = "  + duration:"
    THEN [t |-> [t EXCEPT !.duration = line.duration,
                          !.visible = RefreshVisibleValue([t EXCEPT !.duration = line.duration],
                                                          policy)],
          raised |-> "none"]
    ELSE IF line.kind = "  + chapters:"
    THEN [t |-> [t EXCEPT !.currentObjectType = "Chapter"], raised |-> "none"]
    ELSE IF line.kind = "  + audio tracks:"
    THEN [t |-> [t EXCEPT !.currentObjectType = "AudioTrack"], raised |-> "none"]
    ELSE IF line.kind = "  + subtitle tracks:"
    THEN [t |-> [t EXCEPT !.currentObjectType = "SubtitleTrack"], raised |-> "none"]
    ELSE ParseDetail(t, line)

TitleParse(obj, line) ==
    /\ Running
    /\ LET r == TitleParseResult(title[obj], line)
       IN /\ title' = [title EXCEPT ![obj] = r.t]
          /\ raised' = r.raised
    /\ lastOp' = IF line \in DetailLines THEN "Title.Parse detail" ELSE "Title.Parse"
    /\ UNCHANGED <<titles, titlesById, titlesByTitleNumber, titlesByOrderNumber>>
    /\ CollectionFrame

\* Title.clear: the attributes it leaves.  It assigns every attribute that
\* __init__ assigns but currentObjectType: its last line sets an attribute
\* named currentObject, which nothing reads.
TitleCleared(t) == [NewTitle EXCEPT !.currentObjectType = t.currentObjectType]

\* Title.clear() on title obj.
TitleClear(obj) ==
    /\ Running
    /\ title' = [title EXCEPT ![obj] = TitleCleared(title[obj])]
    /\ lastOp' = "Title.clear"
    /\ UNCHANGED <<titles, titlesById, titlesByTitleNumber, titlesByOrderNumber, raised>>
    /\ CollectionFrame

NextParse ==
    \/ \E obj \in ParsedTitles, line \in Lines : TitleParse(obj, line)
    \/ \E obj \in ParsedTitles : TitleClear(obj)

SpecParse == InitEmpty /\ [][NextParse]_vars

\* ------------------------------------------------------------- SpecStates
\* XML attributes are optional: <<>> is an absent attribute, <<v>> one whose
\* value is v.  XMLHelpers.GetXMLAttribute and GetXMLAttributeAsInt return
\* the value of the attribute, or the default when it is absent.
GetXMLAttribute(attribute, default) ==
    IF attribute = <<>> THEN default ELSE attribute[1]

\* XMLHelpers.GetValidXMLAttribute: the default also replaces a value that
\* is not one of the valid ones.
GetValidXMLAttribute(attribute, default, valid) ==
    IF GetXMLAttribute(attribute, default) \in valid
    THEN GetXMLAttribute(attribute, default)
    ELSE default

\* "x in list", for a list of strings and an x that may be None.
InList(x, list) == x # <<>> /\ \E i \in DOMAIN list : list[i] = x[1]

AUDIO_TRACK_CHOICES == {"", "1", "2", "3", "4", "5", "6", "7", "8", "9"}
SUBTITLE_TRACK_CHOICES == {"", "1", "2", "3", "4", "5", "6", "7", "8", "9"}
PROCESS_CHOICES == {"Default", "Custom"}

\* DiscMixdownsSingleton.set
DiscMixdownsSet(mixdowns) ==
    /\ Running
    /\ discMixdowns' = mixdowns
    /\ lastOp' = "DiscMixdownsSingleton.set"
    /\ UNCHANGED <<title, titles, titlesById, titlesByTitleNumber,
                   titlesByOrderNumber, hash, policy, other, flags, result, raised,
                   disc, audioTrackStates, subtitleTrackStates, chapters>>

\* AudioTrackState.fromXML: the state it leaves.  The mixdowns are read with
\* None as the default, and None replaces a value that is not one of the
\* valid mixdowns.
AudioTrackStateRead(element) ==
    LET track == GetXMLAttribute(element.track, "")
    IN [index |-> GetXMLAttribute(element.index, 0),
        track |-> IF track \in AUDIO_TRACK_CHOICES THEN track ELSE "",
        primaryMixdown |-> IF InList(element.primary, discMixdowns)
                           THEN element.primary ELSE <<>>,
        secondaryMixdown |-> IF InList(element.secondary, discMixdowns)
                             THEN element.secondary ELSE <<>>]

\* AudioTrackState.toXML: the attributes of the element written for a state
\* whose mixdowns are strings.
AudioTrackStateWritten(state) ==
    [index |-> <<state.index>>, track |-> <<state.track>>,
     primary |-> state.primaryMixdown, secondary |-> state.secondaryMixdown]

\* AudioTrackState.fromXML on the state at idx (Disc.fromXML calls it for
\* the AudioTrack0, AudioTrack1 and AudioTrack2 elements of old documents).
AudioTrackStateFromXML(idx, element) ==
    /\ Running
    /\ idx \in DOMAIN audioTrackStates.audioTrackStates
    /\ audioTrackStates' =
           [audioTrackStates EXCEPT !.audioTrackStates[idx] = AudioTrackStateRead(element)]
    /\ result' = [idx |-> idx, element |-> element]
    /\ lastOp' = "AudioTrackState.fromXML"
    /\ UNCHANGED <<title, titles, titlesById, titlesByTitleNumber,
                   titlesByOrderNumber, hash, policy, other, flags, raised,
                   disc, discMixdowns, subtitleTrackStates, chapters>>

\* "index in range(len(...))"
InRange(index) == index \in 0..(StateCount - 1)

RECURSIVE AudioTrackStatesLoadSkipping(_, _)
\* Mutant of AudioTrackStatesLoad: a child whose Index is out of range is
\* passed over.
AudioTrackStatesLoadSkipping(st, children) ==
    IF children = <<>> THEN st
    ELSE LET index == GetXMLAttribute(Head(children).index, 0)
         IN AudioTrackStatesLoadSkipping(
                IF InRange(index)
                THEN [st EXCEPT !.value.audioTrackStates[index + 1] =
                                    AudioTrackStateRead(Head(children))]
                ELSE st,
                Tail(children))

RECURSIVE AudioTrackStatesLoad(_, _)
\* The loop of AudioTrackStates.fromXML over the AudioTrackState children:
\* a child whose Index is out of range raises RuntimeError.
AudioTrackStatesLoad(st, children) ==
    IF children = <<>> THEN st
    ELSE LET index == GetXMLAttribute(Head(children).index, 0)
         IN IF InRange(index)
            THEN AudioTrackStatesLoad(
                     [st EXCEPT !.value.audioTrackStates[index + 1] =
                                    AudioTrackStateRead(Head(children))],
                     Tail(children))
            ELSE [st EXCEPT !.raised = "RuntimeError"]

\* AudioTrackStates.clear
AudioTrackStatesCleared ==
    [processChoice |-> "Default",
     audioTrackStates |->
         [i \in DOMAIN audioTrackStates.audioTrackStates |->
              [NewAudioTrackState(0) EXCEPT
                   !.index = audioTrackStates.audioTrackStates[i].index]]]

\* AudioTrackStates.fromXML: the states it leaves and what it raises.
AudioTrackStatesRead(element) ==
    AudioTrackStatesLoad(
        [value |-> [AudioTrackStatesCleared EXCEPT
                        !.processChoice =
                            GetValidXMLAttribute(element.processChoice, "Default",
                                                 PROCESS_CHOICES)],
         raised |-> "none"],
        element.children)

\* AudioTrackStates.fromXML
AudioTrackStatesFromXML(element) ==
    /\ Running
    /\ audioTrackStates' = AudioTrackStatesRead(element).value
    /\ raised' = AudioTrackStatesRead(element).raised
    /\ result' = [children |-> element.children]
    /\ lastOp' = "AudioTrackStates.fromXML"
    /\ UNCHANGED <<title, titles, titlesById, titlesByTitleNumber,
                   titlesByOrderNumber, hash, policy, other, flags,
                   disc, discMixdowns, subtitleTrackStates, chapters>>

\* SubtitleTrackState.FromXML: the state it leaves.
SubtitleTrackStateRead(element) ==
    LET track == GetXMLAttribute(element.track, "")
    IN [index |-> GetXMLAttribute(element.index, 0),
        track |-> IF track \in SUBTITLE_TRACK_CHOICES THEN track ELSE "",
        forced |-> FALSE, burn |-> FALSE, default |-> FALSE]

RECURSIVE SubtitleTrackStatesLoad(_, _)
\* The loop of SubtitleTrackStates.FromXML over the SubtitleTrackState
\* children: a child whose Index is out of range is passed over.
SubtitleTrackStatesLoad(value, children) ==
    IF children = <<>> THEN value
    ELSE LET index == GetXMLAttribute(Head(children).index, 0)
         IN SubtitleTrackStatesLoad(
                IF InRange(index)
                THEN [value EXCEPT !.subtitleTrackStates[index + 1] =
                                       SubtitleTrackStateRead(Head(children))]
                ELSE value,
                Tail(children))

\* SubtitleTrackStates.clear
SubtitleTrackStatesCleared ==
    [processChoice |-> "Default",
     subtitleTrackStates |->
         [i \in DOMAIN subtitleTrackStates.subtitleTrackStates |->
              [NewSubtitleTrackState(0) EXCEPT
                   !.index = subtitleTrackStates.subtitleTrackStates[i].index]]]

\* SubtitleTrackStates.FromXML
SubtitleTrackStatesFromXML(element) ==
    /\ Running
    /\ subtitleTrackStates' =
           SubtitleTrackStatesLoad(
               [SubtitleTrackStatesCleared EXCEPT
                    !.processChoice =
                        GetValidXMLAttribute(element.processChoice, "Default",
                                             PROCESS_CHOICES)],
               element.children)
    /\ result' = [children |-> element.children]
    /\ lastOp' = "SubtitleTrackStates.FromXML"
    /\ UNCHANGED <<title, titles, titlesById, titlesByTitleNumber,
                   titlesByOrderNumber, hash, policy, other, flags, raised,
                   disc, discMixdowns, audioTrackStates, chapters>>

\* The documents: the valid mixdown lists, the AudioTrackState elements read
\* one at a time, and the AudioTrackStates / SubtitleTrackStates elements
\* with up to MaxChildren children whose Index is absent, in range or just
\* out of range on either side.
MaxChildren == 2
MixdownLists == {<<>>, <<"Stereo">>}
StateElements ==
    [index : {<<>>}, track : {<<"1">>, <<"x">>},
     primary : {<<>>, <<"">>, <<"Stereo">>, <<"Bogus">>},
     secondary : {<<>>, <<"Stereo">>}]
StateChildren ==
    [index : {<<>>, <<-1>>, <<1>>, <<StateCount>>}, track : {<<"1">>},
     primary : {<<"Stereo">>}, secondary : {<<>>}]
StatesElements ==
    [processChoice : {<<>>, <<"Custom">>},
     children : UNION {[1..n -> StateChildren] : n \in 0..MaxChildren}]

NextStates ==
    \/ \E mixdowns \in MixdownLists : DiscMixdownsSet(mixdowns)
    \/ \E element \in StatesElements : AudioTrackStatesFromXML(element)
    \/ \E element \in StatesElements : SubtitleTrackStatesFromXML(element)

SpecStates == InitEmpty /\ [][NextStates]_vars

NextMixdowns ==
    \/ \E mixdowns \in MixdownLists : DiscMixdownsSet(mixdowns)
    \/ \E idx \in 1..StateCount, element \in StateElements :
           AudioTrackStateFromXML(idx, element)

SpecMixdowns == InitEmpty /\ [][NextMixdowns]_vars

\* ----------------------------------------------------------- SpecChapters
\* Mutant of UpdateLowestHighestChapterNumbers: a chapter number below one
\* is accepted.
UpdateLowestHighestUnchecked(c, obj) ==
    LET n == c.chapter[obj].chapterNumber
    IN [value |-> [c EXCEPT
                       !.lowestChapterNumber =
                           IF @ = 0 THEN n ELSE IF n < @ THEN n ELSE @,
                       !.highestChapterNumber =
                           IF @ = 0 THEN n ELSE IF n > @ THEN n ELSE @],
        raised |-> "none"]

\* Chapters._updateLowestHighestChapterNumbers(obj) on the collection c.
UpdateLowestHighestChapterNumbers(c, obj) ==
    LET n == c.chapter[obj].chapterNumber
    IN IF n < 1 THEN [value |-> c, raised |-> "RuntimeError"]
       ELSE [value |-> [c EXCEPT
                            !.lowestChapterNumber =
                                IF @ = 0 THEN n ELSE IF n < @ THEN n ELSE @,
                            !.highestChapterNumber =
                                IF @ = 0 THEN n ELSE IF n > @ THEN n ELSE @],
             raised |-> "none"]

RECURSIVE RefreshLoop(_, _)
\* The loop of _refreshLowestHighestChapterNumbers over the chapters left.
RefreshLoop(st, objs) ==
    IF objs = <<>> \/ st.raised # "none" THEN st
    ELSE RefreshLoop(UpdateLowestHighestChapterNumbers(st.value, Head(objs)), Tail(objs))

\* Chapters._refreshLowestHighestChapterNumbers
RefreshLowestHighestChapterNumbers(c) ==
    RefreshLoop([value |-> [c EXCEPT !.lowestChapterNumber = 0,
                                     !.highestChapterNumber = 0],
                 raised |-> "none"],
                c.chapters)

\* The identity of the next Chapter constructed, and the numbers of the
\* chapters of the collection but the one at position skip.
FreeChapterIds ==
    ChapterIds \ (Range(chapters.chapters) \cup Range(chapters.chaptersByChapterNumber))
MemberChapterNumbers(skip) ==
    {chapters.chapter[chapters.chapters[i]].chapterNumber :
         i \in DOMAIN chapters.chapters \ {skip}}

\* A Chapter object nothing refers to any more is gone.
CollectChapters(c) ==
    [c EXCEPT !.chapter =
                  [i \in ChapterIds |->
                       IF i \in Range(c.chapters) \cup Range(c.chaptersByChapterNumber)
                       THEN c.chapter[i] ELSE NewChapter]]

\* An operation on the Chapters object that leaves st.
ChaptersLeft(st, name) ==
    /\ chapters' = CollectChapters(st.value)
    /\ raised' = st.raised
    /\ lastOp' = name
    /\ UNCHANGED <<title, titles, titlesById, titlesByTitleNumber,
                   titlesByOrderNumber, hash, policy, other, flags, result,
                   disc, discMixdowns, audioTrackStates, subtitleTrackStates>>

\* Chapters.insert(idx, obj) (and append), obj a Chapter numbered number.
ChaptersInsert(idx, number, duration) ==
    /\ Running
    /\ Len(chapters.chapters) < MaxChapters
    /\ idx \in 0..Len(chapters.chapters)
    /\ number \notin MemberChapterNumbers(0)
    /\ LET obj == Min(FreeChapterIds)
           c == [chapters EXCEPT
                     !.chapter[obj] = [NewChapter EXCEPT !.chapterNumber = number,
                                                         !.duration = duration],
                     !.chapters = ListInsert(@, idx, obj),
                     !.chaptersByChapterNumber = Put(@, number, obj)]
       IN ChaptersLeft(UpdateLowestHighestChapterNumbers(c, obj), "Chapters.insert")

\* Chapters.__setitem__(idx, obj)
ChaptersSetItem(idx, number, duration) ==
    /\ Running
    /\ idx \in DOMAIN chapters.chapters
    /\ number \notin MemberChapterNumbers(idx)
    /\ LET obj == Min(FreeChapterIds)
           old == chapters.chapter[chapters.chapters[idx]].chapterNumber
           c == [chapters EXCEPT
                     !.chapter[obj] = [NewChapter EXCEPT !.chapterNumber = number,
                                                         !.duration = duration],
                     !.chapters[idx] = obj,
                     !.chaptersByChapterNumber = Put(Pop(@, old), number, obj)]
       IN ChaptersLeft(RefreshLowestHighestChapterNumbers(c), "Chapters.__setitem__")

\* Chapters.__delitem__(idx)
ChaptersDelItem(idx) ==
    /\ Running
    /\ idx \in DOMAIN chapters.chapters
    /\ LET old == chapters.chapter[chapters.chapters[idx]].chapterNumber
           c == [chapters EXCEPT
                     !.chapters = ListDelete(@, idx),
                     !.chaptersByChapterNumber = Pop(@, old)]
       IN ChaptersLeft(RefreshLowestHighestChapterNumbers(c), "Chapters.__delitem__")

\* Mutant of ChaptersCleared: the lowest and highest numbers are kept.
ChaptersClearedKeepingNumbers ==
    [chapters EXCEPT !.chapters = <<>>, !.chaptersByChapterNumber = EmptyDict]

\* Chapters.clear: the collection it leaves.
ChaptersCleared ==
    [chapters EXCEPT !.chapters = <<>>, !.chaptersByChapterNumber = EmptyDict,
                     !.lowestChapterNumber = 0, !.highestChapterNumber = 0]

\* Chapters.clear()
ChaptersClear ==
    /\ Running
    /\ ChaptersLeft([value |-> ChaptersCleared, raised |-> "none"], "Chapters.clear")

\* Helpers.TimedeltaAsDuration, for a number of seconds.
TimedeltaAsDuration(td) == <<td \div 3600, (td % 3600) \div 60, td % 60>>

RECURSIVE CumulativeLoop(_, _, _)
\* The loop of calculateCumulativeDuration: the duration of the chapter is
\* added, then the sum is stored in the chapter.  A duration of '' makes
\* DurationAsTimedelta raise ValueError.
CumulativeLoop(st, cumulativeDuration, objs) ==
    IF objs = <<>> THEN st
    ELSE IF st.value.chapter[Head(objs)].duration = <<>>
    THEN [st EXCEPT !.raised = "ValueError"]
    ELSE LET sum == cumulativeDuration
                        + DurationAsTimedelta(st.value.chapter[Head(objs)].duration)
         IN CumulativeLoop(
                [st EXCEPT !.value.chapter[Head(objs)].cumulativeDuration =
                               TimedeltaAsDuration(sum)],
                sum, Tail(objs))

\* Chapters.calculateCumulativeDuration
CalculateCumulativeDuration ==
    /\ Running
    /\ ChaptersLeft(CumulativeLoop([value |-> chapters, raised |-> "none"], 0,
                                   chapters.chapters),
                    "Chapters.calculateCumulativeDuration")

\* The chapters inserted: numbered from 0, of a duration that is not set, of
\* 20 seconds or of 50 seconds.
ChapterNumbers == 0..MaxChapters
ChapterDurations == {<<>>, <<0, 0, 20>>, <<0, 0, 50>>}

NextChapters ==
    \/ \E idx \in 0..MaxChapters, number \in ChapterNumbers, duration \in ChapterDurations :
           ChaptersInsert(idx, number, duration)
    \/ \E idx \in 1..MaxChapters, number \in ChapterNumbers, duration \in ChapterDurations :
           ChaptersSetItem(idx, number, duration)
    \/ \E idx \in 1..MaxChapters : ChaptersDelItem(idx)
    \/ ChaptersClear
    \/ CalculateCumulativeDuration

SpecChapters == InitEmpty /\ [][NextChapters]_vars

\* ------------------------------------------------------------ SpecVisible
\* TitleVisibleSingleton.Set
Set(minimumTitleSeconds, hideShortTitles) ==
    /\ Running
    /\ policy' = [minimumTitleSeconds |-> minimumTitleSeconds,
                  hideShortTitles |-> hideShortTitles]
    /\ lastOp' = "Set"
    /\ UNCHANGED <<title, titles, titlesById, titlesByTitleNumber,
                   titlesByOrderNumber, hash, other, discState, flags, result, raised>>

\* Title.RefreshVisible on member obj.
TitleRefreshVisible(obj) ==
    /\ Running
    /\ obj \in Range(titles)
    /\ title' = [title EXCEPT ![obj].visible = RefreshVisibleValue(title[obj], policy)]
    /\ lastOp' = "Title.RefreshVisible"
    /\ UNCHANGED <<titles, titlesById, titlesByTitleNumber, titlesByOrderNumber,
                   hash, policy, other, discState, flags, result, raised>>

\* Titles.RefreshVisible
TitlesRefreshVisible ==
    /\ Running
    /\ title' = RefreshVisibleAll(title, titles, policy)
    /\ lastOp' = "RefreshVisible"
    /\ UNCHANGED <<titles, titlesById, titlesByTitleNumber, titlesByOrderNumber,
                   hash, policy, other, discState, flags, result, raised>>

\* The thresholds the preferences are set to: 20 seconds and 30 seconds.
PolicySeconds == {20, 30}

\* A collection of up to MaxMatchTitles titles in natural order, each with a
\* duration or none, all visible, under the policy of a new singleton.
InitVisible ==
    \E n \in 0..MaxMatchTitles :
        \E dur \in [1..n -> Durations \cup {<<>>}] :
            /\ Loaded(n, [i \in 1..n |-> i], [i \in 1..n |-> i - 1],
                      [i \in 1..n |-> FALSE], [i \in 1..n |-> TRUE], dur)
            /\ lastOp = "load"

NextVisible ==
    \/ \E s \in PolicySeconds, h \in BOOLEAN : Set(s, h)
    \/ \E obj \in Ids : TitleRefreshVisible(obj)
    \/ TitlesRefreshVisible

SpecVisible == InitVisible /\ [][NextVisible]_vars

\* --------------------------------------------------------------- SpecDisc
\* Disc.fromXML reads the children of the Disc element in document order.
\* self.titles.fromXML and self.subtitleTrackStates.fromXML raise
\* AttributeError (the methods are FromXML); an AudioTrackStates child is
\* loaded, and each one is loaded into states the call before it cleared.
\* Only the last AudioTrackStates child therefore shows in the states, unless
\* an earlier one raises.
DiscChildLoad(child) ==
    IF child.name = "AudioTrackStates" THEN AudioTrackStatesRead(child.element)
    ELSE [value |-> AudioTrackStatesCleared, raised |-> "AttributeError"]

RECURSIVE DiscChildrenLoad(_, _)
DiscChildrenLoad(st, children) ==
    IF children = <<>> \/ st.raised # "none" THEN st
    ELSE LET r == DiscChildLoad(Head(children))
         IN DiscChildrenLoad(
                IF Head(children).name = "AudioTrackStates" THEN r
                ELSE [st EXCEPT !.raised = r.raised],
                Tail(children))

\* Disc.fromXML: the Disc's attributes, the audio track states and what is
\* raised.  With no filename template or preset in the singletons (lists the
\* preferences fill), indexing the empty list raises IndexError before
\* HideShortTitles is read.  After the children, self.titles.matchingTitles()
\* raises AttributeError (Titles has GetMatchingTitles only), so that
\* newSessionStuff is never reached.
DiscRead(populated, element) ==
    IF ~populated
    THEN [disc |-> NewDisc, value |-> AudioTrackStatesCleared, raised |-> "IndexError"]
    ELSE LET st == DiscChildrenLoad([value |-> AudioTrackStatesCleared,
                                     raised |-> "none"],
                                    element.children)
         IN [disc |-> [hideShortTitles |-> GetXMLAttribute(element.hideShortTitles, FALSE)],
             value |-> st.value,
             raised |-> IF st.raised = "none" THEN "AttributeError" ELSE st.raised]

\* Disc.fromXML(element), after Disc.clear.
DiscFromXML(populated, element) ==
    /\ Running
    /\ titles' = <<>>
    /\ titlesById' = EmptyDict
    /\ titlesByTitleNumber' = EmptyDict
    /\ titlesByOrderNumber' = EmptyDict
    /\ title' = [i \in Ids |-> NewTitle]
    /\ subtitleTrackStates' = SubtitleTrackStatesCleared
    /\ disc' = DiscRead(populated, element).disc
    /\ audioTrackStates' = DiscRead(populated, element).value
    /\ raised' = DiscRead(populated, element).raised
    /\ lastOp' = "Disc.fromXML"
    /\ UNCHANGED <<hash, policy, other, flags, result, discMixdowns, chapters>>

\* Disc.parse(buffer): self.titles.parse raises AttributeError (the method
\* of Titles is Parse) before anything is read.
DiscParse ==
    /\ Running
    /\ raised' = "AttributeError"
    /\ lastOp' = "Disc.parse"
    /\ UNCHANGED <<title, titles, titlesById, titlesByTitleNumber,
                   titlesByOrderNumber, hash, policy, other, discState, flags, result>>

\* The Disc elements: HideShortTitles absent, True or False, and up to
\* MaxChildren children.
DiscAudioElements == {e \in StatesElements : Len(e.children) <= 1}
DiscChildren ==
    [name : {"Titles", "SubtitleTrackStates"},
     element : {[processChoice |-> <<>>, children |-> <<>>]}]
        \cup [name : {"AudioTrackStates"}, element : DiscAudioElements]
DiscElements ==
    [hideShortTitles : {<<>>, <<TRUE>>, <<FALSE>>},
     children : UNION {[1..n -> DiscChildren] : n \in 0..MaxChildren}]

NextDisc ==
    \/ \E s \in PolicySeconds, h \in BOOLEAN : Set(s, h)
    \/ \E populated \in BOOLEAN, element \in DiscElements : DiscFromXML(populated, element)
    \/ DiscParse

SpecDisc == InitVisible /\ [][NextDisc]_vars

\* ------------------------------------------------------------ SpecNumbers
\* The title numbers of the titles inserted: 0, the number of a Title as
\* its constructor leaves it, and the numbers of the titles of a disc.
AnyNumbers == 0..MaxMembers

NextNumbers ==
    \/ \E idx \in 0..MaxMembers, tn \in AnyNumbers, on \in MemberOrders :
           Insert(idx, tn, on)
    \/ \E idx \in 1..MaxMembers, tn \in AnyNumbers, on \in MemberOrders :
           SetItem(idx, tn, on)
    \/ \E idx \in 1..MaxMembers : DelItem(idx)
    \/ Clear

SpecNumbers == InitEmpty /\ [][NextNumbers]_vars

\* ------------------------------------------------------ index properties
Members == Range(titles)

\* A dictionary holds exactly one entry per member, under the member's key.
ByIdExact ==
    /\ DOMAIN titlesById = Members
    /\ \A i \in Members : titlesById[i] = i

ByTitleNumberExact ==
    /\ DOMAIN titlesByTitleNumber = {title[i].titleNumber : i \in Members}
    /\ \A i \in Members : titlesByTitleNumber[title[i].titleNumber] = i

ByOrderNumberExact ==
    /\ DOMAIN titlesByOrderNumber = {title[i].orderNumber : i \in Members}
    /\ \A i \in Members : titlesByOrderNumber[title[i].orderNumber] = i

IndicesExact ==
    /\ Injective(titles)
    /\ ByIdExact
    /\ ByTitleNumberExact
    /\ ByOrderNumberExact

DistinctOrderNumbers ==
    \A i, j \in Members : title[i].orderNumber = title[j].orderNumber => i = j

DistinctTitleNumbers ==
    \A i, j \in Members : title[i].titleNumber = title[j].titleNumber => i = j

\* The order numbers are exactly 0..n-1 and titlesByOrderNumber maps each k
\* to the member whose orderNumber is k.
OrderIsPermutation ==
    /\ {title[i].orderNumber : i \in Members} = 0..(Len(titles) - 1)
    /\ DistinctOrderNumbers
    /\ ByOrderNumberExact

C2_OrderStaysPermutation == OrderIsPermutation

\* C3: SetNaturalTitleOrder leaves the order numbers a permutation of 0..n-1
\* that ascends with the title numbers, and titlesByOrderNumber holding
\* exactly those n entries.
C3_NaturalOrder ==
    lastOp = "SetNaturalTitleOrder" =>
        /\ OrderIsPermutation
        /\ \A a, b \in Members :
               title[a].titleNumber < title[b].titleNumber
                   => title[a].orderNumber < title[b].orderNumber

\* C3 witness: SetNaturalTitleOrder has run on a full collection whose
\* sequence is not in title-number order.
C3_Witness ==
    /\ lastOp = "SetNaturalTitleOrder"
    /\ Len(titles) = MaxTitles
    /\ \E i \in 1..(Len(titles) - 1) :
           title[titles[i]].titleNumber > title[titles[i + 1]].titleNumber

\* ------------------------------------------- claims on GetMatchingTitles
\* The members in ascending order of their order numbers.
InOrder == [k \in 1..Len(titles) |-> titlesByOrderNumber[k - 1]]

Seconds(i) == DurationAsTimedelta(title[i].duration)

\* Member i is the first, in order-number order, of the longest members.
FirstLongest(i) ==
    \A j \in Members :
        \/ Seconds(j) < Seconds(i)
        \/ (Seconds(j) = Seconds(i) /\ title[i].orderNumber <= title[j].orderNumber)

Matched == lastOp = "GetMatchingTitles"

\* C4: GetMatchingTitles(0) on a non-empty collection returns every title in
\* ascending order-number order, as longestMatchingTitle the title of maximum
\* duration (the first in order-number order of those that tie), and no
\* defaultTitle.
C4_NoFilterResult ==
    (Matched /\ flags = 0 /\ HasTitles) =>
        /\ raised = "none"
        /\ result.matchingTitles = InOrder
        /\ result.longestMatchingTitle \in Members
        /\ FirstLongest(result.longestMatchingTitle)
        /\ result.defaultTitle = NoTitle

\* C5 (as stated): GetMatchingTitles on an empty collection returns an empty
\* matchingTitles and None three times, and raises nothing.
C5_EmptyReturnsNothing ==
    (Matched /\ ~HasTitles) => (raised = "none" /\ result = NoResult)

\* C5 (amended): GetMatchingTitles on an empty collection raises
\* AssertionError, or IndexError in a build without asserts, for any flags,
\* and returns nothing.
C5_EmptyRaises ==
    (Matched /\ ~HasTitles) => raised \in {"AssertionError", "IndexError"}

\* C5 witness: the call on an empty collection, with both flags set.
C5_Witness ==
    Matched /\ ~HasTitles /\ flags = FLAG_SELECTED + FLAG_VISIBLE
        /\ raised = "AssertionError"

C7_HashUnchangedByMoves == GetHash = hash

\* C7 witness: after a move the order numbers do not ascend with the title
\* numbers, nor does the sequence, and GetHash still returns the loaded value.
C7_Witness ==
    /\ lastOp \in {"MoveUp", "MoveDown", "MoveTop", "MoveBottom"}
    /\ raised = "none"
    /\ Len(titles) = MaxTitles
    /\ \E a, b \in Members :
           /\ title[a].titleNumber < title[b].titleNumber
           /\ title[a].orderNumber > title[b].orderNumber
    /\ title[titles[1]].titleNumber > title[titles[2]].titleNumber
    /\ GetHash = hash

Hashed == lastOp = "GetHash"

\* Title t without its durations.
WithoutDurations(t) == WithDurations(t, <<>>)

\* The structural attributes of the chapters and tracks of title t.
Structure(t) ==
    [chapters |-> [p \in DOMAIN t.chapters |->
                       [chapterNumber |-> t.chapters[p].chapterNumber,
                        cells |-> t.chapters[p].cells,
                        blocks |-> t.chapters[p].blocks]],
     audioTracks |-> [p \in DOMAIN t.audioTracks |->
                          [trackNumber |-> t.audioTracks[p].trackNumber,
                           hertz |-> t.audioTracks[p].hertz,
                           bitsPerSecond |-> t.audioTracks[p].bitsPerSecond,
                           language |-> Language(t.audioTracks[p].description),
                           channels |-> Channels(t.audioTracks[p].description)]],
     subtitleTracks |-> [p \in DOMAIN t.subtitleTracks |->
                             [trackNumber |-> t.subtitleTracks[p].trackNumber,
                              language |-> Language(t.subtitleTracks[p].description)]]]

\* C8: two collections that differ only in the durations of titles or of
\* chapters have the same GetHash value.
C8_HashIgnoresDurations ==
    (Hashed /\ \A i \in Ids : WithoutDurations(title[i]) = WithoutDurations(other[i]))
        => result.this = result.other

\* C8 witness: the two collections differ in the duration of every title and
\* of a chapter, in nothing else, and have the same hash.
C8_Witness ==
    /\ Hashed
    /\ Len(titles) = MaxMatchTitles
    /\ \A i \in Ids : WithoutDurations(title[i]) = WithoutDurations(other[i])
    /\ \A i \in Members : title[i].duration # other[i].duration
    /\ \E i \in Members : \E p \in DOMAIN title[i].chapters :
           title[i].chapters[p].duration # other[i].chapters[p].duration
    /\ result.this = result.other

\* C9: two collections that are equal except for one structural attribute of
\* one chapter, audio track or subtitle track of one title, or for the number
\* of the chapters, audio tracks or subtitle tracks of one title, have
\* different GetHash values (the digest stands for the bytes hashed).
C9_HashSeesStructure ==
    (Hashed /\ \E i \in Members : Structure(title[i]) # Structure(other[i]))
        => result.this # result.other

\* C9 witness: the two collections differ in the channels of one audio track
\* of a title that is not the last one hashed, and have different hashes.
C9_Witness ==
    /\ Hashed
    /\ \E i \in Members : \E p \in DOMAIN title[i].audioTracks :
           /\ i < Len(titles)
           /\ DOMAIN other[i].audioTracks = DOMAIN title[i].audioTracks
           /\ Channels(title[i].audioTracks[p].description)
                  # Channels(other[i].audioTracks[p].description)
           /\ Language(title[i].audioTracks[p].description)
                  = Language(other[i].audioTracks[p].description)
    /\ result.this # result.other

\* C10: in every state reached after a Parse or FromXML, those reached by
\* later insert, delete, replace and clear calls included, the stored hash is
\* the value GetHash returns.
C10_HashNeverStale == (hash # "None" /\ raised = "none") => hash = GetHash

\* ------------------------------------------------------ claims on the moves
\* C11: in a collection whose order numbers are a permutation of 0..n-1,
\* MoveUp and MoveTop of the title with order number 0, and MoveDown and
\* MoveBottom of the title with order number n-1, raise nothing and leave
\* every orderNumber and titlesByOrderNumber as they were.
C11_BoundaryMovesAreNoOps ==
    [][\A obj \in Members :
           (/\ OrderIsPermutation
            /\ \/ /\ title[obj].orderNumber = 0
                  /\ (MoveUp(obj) \/ MoveTop(obj))
               \/ /\ title[obj].orderNumber = Len(titles) - 1
                  /\ (MoveDown(obj) \/ MoveBottom(obj)))
           => /\ raised' = "none"
              /\ title' = title
              /\ titlesByOrderNumber' = titlesByOrderNumber]_vars

\* ------------------------------------------------------- claims on loading
\* C12: Titles.FromXML of a document some of whose Title children lack
\* OrderNumber leaves every title in the natural order and a hash that is not
\* None; of a document all of whose Title children carry OrderNumber it
\* leaves each title, in document order, with the order number of its
\* attribute.
C12_FromXMLOrder ==
    [][\A elements \in Numbered(Elements) :
           FromXML(elements) =>
               /\ raised' = "none"
               /\ Len(titles') = Len(elements)
               /\ IF \E k \in DOMAIN elements : elements[k].order = <<>>
                  THEN /\ OrderIsPermutation'
                       /\ \A a, b \in Range(titles') :
                              title'[a].titleNumber < title'[b].titleNumber
                                  => title'[a].orderNumber < title'[b].orderNumber
                       /\ hash' # "None"
                  ELSE \A k \in DOMAIN elements :
                           title'[titles'[k]].orderNumber = elements[k].order[1]]_vars

\* ------------------------------------------------------ claims on visible
\* Title obj is too short to be shown: the policy hides short titles, the
\* title has a duration and it is at most minimumTitleSeconds.
TooShort(obj) ==
    /\ policy.hideShortTitles
    /\ title[obj].duration # <<>>
    /\ title[obj].duration[1] * 3600 + title[obj].duration[2] * 60
           + title[obj].duration[3] <= policy.minimumTitleSeconds

\* C13: Title.RefreshVisible leaves visible False exactly when the policy hides
\* short titles, the title's duration is set and it is at most
\* minimumTitleSeconds; Titles.RefreshVisible does so for every title.
C13_RefreshVisible ==
    [][/\ \A obj \in Members :
              TitleRefreshVisible(obj) => (title'[obj].visible = ~TooShort(obj))
       /\ TitlesRefreshVisible =>
              \A obj \in Members : title'[obj].visible = ~TooShort(obj)]_vars

\* C13 witness: under a policy that hides titles of 20 seconds or less,
\* Title.RefreshVisible has hidden a title of 20 seconds, next to a title
\* without a duration or a longer one, which is visible.
C13_Witness ==
    /\ lastOp = "Title.RefreshVisible"
    /\ policy = [minimumTitleSeconds |-> 20, hideShortTitles |-> TRUE]
    /\ \E a, b \in Members :
           /\ title[a].duration = <<0, 0, 20>>
           /\ ~title[a].visible
           /\ title[b].duration # <<0, 0, 20>>
           /\ title[b].visible

\* ------------------------------------------------------ claims on lookups
\* The numbers looked up: those a title may carry, and one below and above.
LookupNumbers == -1..(MaxTitles + 1)

\* C14: in every state reached without an exception, GetByTitleNumber and
\* GetByOrderNumber return None for a number that no title of the
\* collection carries, and a title that carries the number otherwise.
C14_LookupsFindCarriers ==
    raised = "none" =>
        \A k \in LookupNumbers :
            /\ LET carriers == {i \in Members : title[i].titleNumber = k}
                   found == GetByTitleNumber(titlesByTitleNumber, k)
               IN IF carriers = {} THEN found = NoTitle ELSE found \in carriers
            /\ LET carriers == {i \in Members : title[i].orderNumber = k}
                   found == GetByOrderNumber(titlesByOrderNumber, k)
               IN IF carriers = {} THEN found = NoTitle ELSE found \in carriers

\* ------------------------------------------------ claims on title numbers
\* C15: no title whose titleNumber is less than 1 is ever in the sequence or
\* in a dictionary of a collection: an insert, append or replace with such a
\* title raises instead.
C15_NoTitleNumberBelowOne ==
    \A i \in Referenced(titles, titlesById, titlesByTitleNumber, titlesByOrderNumber) :
        title[i].titleNumber >= 1

\* ------------------------------------------------- claims on the documents
\* C16: Titles.ToXML writes a document from which Titles.FromXML loads the
\* same titles in the same sequence order, each with the titleNumber,
\* orderNumber, selected flag and duration it had.
C16_RoundTrip ==
    lastOp = "ToXML" =>
        /\ raised = "none"
        /\ LET ld == Ordered(FromXMLElements(Cleared, result.elements),
                             \E k \in DOMAIN result.elements :
                                 result.elements[k].order = <<>>)
           IN /\ ld.raised = "none"
              /\ Len(ld.seq) = Len(titles)
              /\ \A k \in DOMAIN titles :
                     /\ ld.t[ld.seq[k]].titleNumber = title[titles[k]].titleNumber
                     /\ ld.t[ld.seq[k]].orderNumber = title[titles[k]].orderNumber
                     /\ ld.t[ld.seq[k]].selected = title[titles[k]].selected
                     /\ ld.t[ld.seq[k]].duration = title[titles[k]].duration

\* -------------------------------------------------- claims on the filters
\* Title i passes the filters of the last call.
Passes(i) ==
    /\ (flags \in {FLAG_SELECTED, FLAG_SELECTED + FLAG_VISIBLE} => title[i].selected)
    /\ (flags \in {FLAG_VISIBLE, FLAG_SELECTED + FLAG_VISIBLE} => title[i].visible)

\* C17: for every flags value, the matchingTitles GetMatchingTitles returns
\* holds exactly the titles that are selected if FLAG_SELECTED is set and
\* visible if FLAG_VISIBLE is set, each once, in ascending orderNumber order.
C17_MatchingTitlesFiltered ==
    (Matched /\ raised = "none") =>
        /\ Range(result.matchingTitles) = {i \in Members : Passes(i)}
        /\ \A a, b \in DOMAIN result.matchingTitles :
               a < b => title[result.matchingTitles[a]].orderNumber
                            < title[result.matchingTitles[b]].orderNumber

\* C17 witness: with both flags set, a selected title that is hidden is left
\* out, and the first title returned is not the first of the sequence.
C17_Witness ==
    /\ Matched /\ raised = "none"
    /\ flags = FLAG_SELECTED + FLAG_VISIBLE
    /\ Len(titles) = MaxMatchTitles
    /\ \E i \in Members : title[i].selected /\ ~title[i].visible
    /\ result.matchingTitles # <<>>
    /\ result.matchingTitles[1] # titles[1]

\* ---------------------------------------------- claims on the order numbers
\* The order numbers of the titles are pairwise distinct and are exactly
\* 0..n-1.
OrderNumbersDense ==
    /\ DistinctOrderNumbers
    /\ {title[i].orderNumber : i \in Members} = 0..(Len(titles) - 1)

\* C18: once an order has been established, the order numbers of the titles
\* stay pairwise distinct and dense (exactly 0..n-1 for the current number n
\* of titles) when a title is deleted from or inserted into the collection.
C18_OrderNumbersStayDense ==
    [][(/\ OrderNumbersDense
        /\ \/ \E idx \in 1..MaxMembers : DelItem(idx)
           \/ \E idx \in 0..MaxMembers, tn \in MemberNumbers, on \in MemberOrders :
                  Insert(idx, tn, on))
       => OrderNumbersDense']_vars

\* ------------------------------------------------------ claims on the moves
\* The member whose orderNumber is k, in a state where the order numbers are
\* a permutation.
AtOrder(k) == CHOOSE i \in Members : title[i].orderNumber = k

\* Where MoveDown is to put the title at order number k: the order number of
\* the nearest visible title after it, the last one when there is none.
DownTarget(k) ==
    LET following == {j \in (k + 1)..(Len(titles) - 1) : title[AtOrder(j)].visible}
    IN IF following = {} THEN Len(titles) - 1 ELSE Min(following)

\* Where MoveUp is to put it: the order number of the nearest visible title
\* before it, 0 when there is none.
UpTarget(k) ==
    LET preceding == {j \in 0..(k - 1) : title[AtOrder(j)].visible}
    IN IF preceding = {} THEN 0
       ELSE CHOOSE j \in preceding : \A m \in preceding : m <= j

\* The step moved obj from its order number to order number p, moved every
\* title it passed by one position the other way and left the others alone.
MovedTo(obj, p) ==
    LET k == title[obj].orderNumber
    IN /\ raised' = "none"
       /\ title'[obj].orderNumber = p
       /\ \A j \in Members \ {obj} :
              title'[j].orderNumber =
                  IF k < title[j].orderNumber /\ title[j].orderNumber <= p
                  THEN title[j].orderNumber - 1
                  ELSE IF p <= title[j].orderNumber /\ title[j].orderNumber < k
                  THEN title[j].orderNumber + 1
                  ELSE title[j].orderNumber

\* C19: MoveDown of a title that is not last in order puts it right after
\* the nearest visible title that followed it (at the last position when no
\* following title is visible), moves each title it passed up by one and
\* leaves the other titles where they were; MoveUp mirrors this towards 0.
C19_MoveDownUpPassVisible ==
    [][\A obj \in Members :
           /\ (/\ OrderIsPermutation
               /\ title[obj].orderNumber < Len(titles) - 1
               /\ MoveDown(obj))
              => MovedTo(obj, DownTarget(title[obj].orderNumber))
           /\ (/\ OrderIsPermutation
               /\ title[obj].orderNumber > 0
               /\ MoveUp(obj))
              => MovedTo(obj, UpTarget(title[obj].orderNumber))]_vars

\* The half of C19 the code keeps: MoveUp.
C19_MoveUpPassesVisible ==
    [][\A obj \in Members :
           (/\ OrderIsPermutation
            /\ title[obj].orderNumber > 0
            /\ MoveUp(obj))
           => MovedTo(obj, UpTarget(title[obj].orderNumber))]_vars

\* C20: in a collection of n titles reached by any moves, MoveTop leaves the
\* title with orderNumber 0 and MoveBottom leaves it with orderNumber n-1,
\* whatever the visible flags, and the other titles keep their relative
\* order.
C20_MoveTopBottomReachEnds ==
    [][\A obj \in Members :
           /\ MoveTop(obj)
              => /\ raised' = "none"
                 /\ title'[obj].orderNumber = 0
                 /\ \A a, b \in Members \ {obj} :
                        title[a].orderNumber < title[b].orderNumber
                            => title'[a].orderNumber < title'[b].orderNumber
           /\ MoveBottom(obj)
              => /\ raised' = "none"
                 /\ title'[obj].orderNumber = Len(titles) - 1
                 /\ \A a, b \in Members \ {obj} :
                        title[a].orderNumber < title[b].orderNumber
                            => title'[a].orderNumber < title'[b].orderNumber]_vars

\* ------------------------------- claims on the titles GetMatchingTitles picks
\* The member of S with the lowest orderNumber.
FirstInOrder(S) ==
    CHOOSE i \in S : \A j \in S : title[i].orderNumber <= title[j].orderNumber

\* C21: the longestTitle GetMatchingTitles returns on a non-empty collection
\* is a title of maximum duration over the whole collection, whatever the
\* flags, and of the titles that share the maximum the one with the lowest
\* orderNumber.
C21_LongestTitleFirstInOrder ==
    (Matched /\ HasTitles /\ raised = "none") =>
        /\ result.longestTitle \in Members
        /\ FirstLongest(result.longestTitle)

\* C22: when no title matches, defaultTitle is the first selected and
\* visible title, else the first selected title, else the first visible
\* title, else the first title of the collection, "first" meaning lowest
\* orderNumber in every tier.
C22_DefaultTitleByPriority ==
    (Matched /\ HasTitles /\ raised = "none" /\ result.matchingTitles = <<>>) =>
        LET selectedVisible == {i \in Members : title[i].selected /\ title[i].visible}
            selectedOnes == {i \in Members : title[i].selected}
            visibleOnes == {i \in Members : title[i].visible}
        IN result.defaultTitle =
               IF selectedVisible # {} THEN FirstInOrder(selectedVisible)
               ELSE IF selectedOnes # {} THEN FirstInOrder(selectedOnes)
               ELSE IF visibleOnes # {} THEN FirstInOrder(visibleOnes)
               ELSE FirstInOrder(Members)

\* C23: for every flags value on a non-empty collection the result is either
\* a non-empty matchingTitles with a longestMatchingTitle that is one of them
\* and has the greatest duration among them and no defaultTitle, or an empty
\* matchingTitles with no longestMatchingTitle and a defaultTitle that is a
\* title of the collection.
C23_LongestMatchingOrDefault ==
    (Matched /\ HasTitles /\ raised = "none") =>
        \/ /\ result.matchingTitles # <<>>
           /\ result.longestMatchingTitle \in Range(result.matchingTitles)
           /\ \A j \in Range(result.matchingTitles) :
                  Seconds(j) <= Seconds(result.longestMatchingTitle)
           /\ result.defaultTitle = NoTitle
        \/ /\ result.matchingTitles = <<>>
           /\ result.longestMatchingTitle = NoTitle
           /\ result.defaultTitle \in Members

\* ------------------------------------------------------ claims on Title.Parse
\* The sub-collection of title t a section header names.
Section(t, type) ==
    IF type = "Chapter" THEN t.chapters
    ELSE IF type = "AudioTrack" THEN t.audioTracks
    ELSE t.subtitleTracks

\* C24: every detail line Title.Parse reads after a section header adds
\* exactly one entity to the sub-collection the most recent header names and
\* leaves the other two sub-collections unchanged.
C24_DetailLineAddsOne ==
    [][\A obj \in ParsedTitles, line \in DetailLines :
           (title[obj].currentObjectType # "None" /\ TitleParse(obj, line)) =>
               /\ raised' = "none"
               /\ \A type \in {"Chapter", "AudioTrack", "SubtitleTrack"} :
                      Len(Section(title'[obj], type)) =
                          Len(Section(title[obj], type))
                              + (IF type = title[obj].currentObjectType THEN 1 ELSE 0)]_vars

\* C25: a detail line Title.Parse reads before any section header raises
\* nothing and leaves chapters, audioTracks, subtitleTracks and
\* currentObjectType as they were.
C25_DetailBeforeHeaderDropped ==
    [][\A obj \in ParsedTitles, line \in DetailLines :
           (title[obj].currentObjectType = "None" /\ TitleParse(obj, line)) =>
               /\ raised' = "none"
               /\ title'[obj].chapters = title[obj].chapters
               /\ title'[obj].audioTracks = title[obj].audioTracks
               /\ title'[obj].subtitleTracks = title[obj].subtitleTracks
               /\ title'[obj].currentObjectType = "None"]_vars

\* C25 witness: a detail line has been read without an error, after the
\* title line and the duration line of a title that has seen no header.
C25_Witness ==
    /\ lastOp = "Title.Parse detail"
    /\ raised = "none"
    /\ \E obj \in ParsedTitles :
           /\ title[obj].titleNumber >= 1
           /\ title[obj].duration # <<>>
           /\ title[obj].currentObjectType = "None"
           /\ title[obj].chapters = <<>>

\* --------------------------------------------------- claims on track states
\* The Index a child state element is loaded at.
ChildIndex(child) == GetXMLAttribute(child.index, 0)

\* The children whose Index is in range, and the positions of the others.
InRangeOnly(children) == SelectSeq(children, LAMBDA child : InRange(ChildIndex(child)))
OutOfRange(children) == {k \in DOMAIN children : ~InRange(ChildIndex(children[k]))}

\* The states the in-range children of the list give, loaded into cleared
\* states one after the other.
AudioStatesFrom(children) ==
    AudioTrackStatesLoad([value |-> AudioTrackStatesCleared, raised |-> "none"],
                         InRangeOnly(children)).value.audioTrackStates
SubtitleStatesFrom(children) ==
    SubtitleTrackStatesLoad(SubtitleTrackStatesCleared,
                            InRangeOnly(children)).subtitleTrackStates

\* C26 (as stated): AudioTrackStates.fromXML and SubtitleTrackStates.FromXML
\* both pass over a child state element whose Index is outside 0..len-1: no
\* error is raised and the states are what the other children give.
C26_OutOfRangeSkippedByBoth ==
    /\ lastOp = "AudioTrackStates.fromXML" =>
           /\ raised = "none"
           /\ audioTrackStates.audioTrackStates = AudioStatesFrom(result.children)
    /\ lastOp = "SubtitleTrackStates.FromXML" =>
           /\ raised = "none"
           /\ subtitleTrackStates.subtitleTrackStates = SubtitleStatesFrom(result.children)

\* C26 (amended): SubtitleTrackStates.FromXML passes over a child whose Index
\* is outside 0..len-1; AudioTrackStates.fromXML raises RuntimeError at the
\* first such child, with the states the children before it gave, and raises
\* nothing when every Index is in range.
C26_AudioRaisesSubtitleSkips ==
    /\ lastOp = "AudioTrackStates.fromXML" =>
           IF OutOfRange(result.children) = {}
           THEN /\ raised = "none"
                /\ audioTrackStates.audioTrackStates = AudioStatesFrom(result.children)
           ELSE /\ raised = "RuntimeError"
                /\ audioTrackStates.audioTrackStates
                       = AudioStatesFrom(SubSeq(result.children, 1,
                                                Min(OutOfRange(result.children)) - 1))
    /\ lastOp = "SubtitleTrackStates.FromXML" =>
           /\ raised = "none"
           /\ subtitleTrackStates.subtitleTrackStates = SubtitleStatesFrom(result.children)

\* C26 witness: AudioTrackStates.fromXML has raised RuntimeError at a second
\* child whose Index is out of range, the state the first child names is
\* loaded, and a SubtitleTrackStates load has gone before.
C26_Witness ==
    /\ lastOp = "AudioTrackStates.fromXML"
    /\ raised = "RuntimeError"
    /\ Len(result.children) = 2
    /\ InRange(ChildIndex(result.children[1]))
    /\ ~InRange(ChildIndex(result.children[2]))
    /\ audioTrackStates.audioTrackStates[ChildIndex(result.children[1]) + 1].track = "1"
    /\ \E i \in DOMAIN subtitleTrackStates.subtitleTrackStates :
           subtitleTrackStates.subtitleTrackStates[i].track = "1"

\* C30: after AudioTrackState.fromXML each of the two mixdowns of the state
\* is a valid mixdown or MIXDOWN_DEFAULT (the value clear sets), a value that
\* is not valid having been replaced by it, and a cleared state written by
\* toXML and read back is the cleared state.
C30_InvalidMixdownBecomesDefault ==
    lastOp = "AudioTrackState.fromXML" =>
        LET state == audioTrackStates.audioTrackStates[result.idx]
        IN /\ InList(state.primaryMixdown, discMixdowns)
                  \/ state.primaryMixdown = MIXDOWN_DEFAULT
           /\ InList(state.secondaryMixdown, discMixdowns)
                  \/ state.secondaryMixdown = MIXDOWN_DEFAULT
           /\ AudioTrackStateRead(AudioTrackStateWritten(NewAudioTrackState(0)))
                  = NewAudioTrackState(0)

\* ------------------------------------------------------- claims on Chapters
\* C27: inserting or appending a Chapter whose chapterNumber is below 1, or
\* replacing an element with one, raises RuntimeError at once; deleting an
\* element does not raise it when every chapter that remains has a
\* chapterNumber of 1 or more.
C27_ChapterNumberBelowOneRaises ==
    [][\A idx \in 0..MaxChapters, number \in ChapterNumbers, duration \in ChapterDurations :
           /\ (number < 1 /\ ChaptersInsert(idx, number, duration))
                  => raised' = "RuntimeError"
           /\ (number < 1 /\ ChaptersSetItem(idx, number, duration))
                  => raised' = "RuntimeError"
           /\ (/\ ChaptersDelItem(idx)
               /\ \A k \in DOMAIN chapters'.chapters :
                      chapters'.chapter[chapters'.chapters[k]].chapterNumber >= 1)
                  => raised' = "none"]_vars

\* C27 witness: replacing the first of two chapters with a chapter numbered 0
\* has raised RuntimeError.
C27_Witness ==
    /\ lastOp = "Chapters.__setitem__"
    /\ raised = "RuntimeError"
    /\ Len(chapters.chapters) = MaxChapters
    /\ chapters.chapter[chapters.chapters[1]].chapterNumber = 0
    /\ \A k \in 2..Len(chapters.chapters) :
           chapters.chapter[chapters.chapters[k]].chapterNumber >= 1

RECURSIVE SecondsBefore(_)
\* The sum of the durations, in seconds, of the chapters before position k.
SecondsBefore(k) ==
    IF k <= 1 THEN 0
    ELSE SecondsBefore(k - 1)
             + DurationAsTimedelta(chapters.chapter[chapters.chapters[k - 1]].duration)

\* C29: after Chapters.calculateCumulativeDuration the cumulativeDuration of
\* each chapter is its start time, the sum of the durations of the chapters
\* before it in the sequence: 00:00:00 for the first chapter.
C29_CumulativeDurationIsStart ==
    (lastOp = "Chapters.calculateCumulativeDuration" /\ raised = "none") =>
        \A k \in DOMAIN chapters.chapters :
            chapters.chapter[chapters.chapters[k]].cumulativeDuration
                = TimedeltaAsDuration(SecondsBefore(k))

\* ----------------------------------------------------------- claims on Disc
\* C28: once Disc.fromXML or Disc.parse has finished, with its last step
\* that copies the disc's hideShortTitles into the visibility policy, every
\* title's visible flag is the one the policy then in force gives for the
\* title's duration.
C28_VisibleFollowsPolicyAfterLoad ==
    lastOp \in {"Disc.fromXML", "Disc.parse"} =>
        /\ raised = "none"
        /\ policy.hideShortTitles = disc.hideShortTitles
        /\ \A obj \in Members : title[obj].visible = ~TooShort(obj)

\* ----------------------------------------------------- claims on the scans
\* C31: Titles.Parse(buffer), whatever the collection held before, raises
\* nothing and leaves exactly one title per "+ title" header of the buffer, in
\* buffer order, with the natural order 0..n-1 ascending in title number and
\* a hash that equals GetHash() of the new contents.
C31_ParseLoadsEveryTitle ==
    [][\A blocks \in Scans :
           Parse(blocks) =>
               /\ raised' = "none"
               /\ Len(titles') = Len(blocks)
               /\ \A k \in DOMAIN blocks :
                      title'[titles'[k]].titleNumber = blocks[k].titleNumber
               /\ OrderIsPermutation'
               /\ \A a, b \in Range(titles') :
                      title'[a].titleNumber < title'[b].titleNumber
                          => title'[a].orderNumber < title'[b].orderNumber
               /\ hash' = GetHash']_vars

\* ------------------------------------------------- the automatic audio states
\* An audio track of a title, as autoset_From_AudioTracks reads it:
\* trackNumber, what the regular expressions find in the description
\* (description), whether description.upper() holds "AC3" (ac3) and whether it
\* holds "DTSHD", "DTS" without "HD", or neither (dts).
MaxAudioTracks == 2

\* str.lower() on the language codes used here.
Lower(s) == IF s = "ENG" THEN "eng" ELSE s

\* AudioTrack.isAC3, isDTSHD, isDTS, is51
IsAC3(audioTrack) == audioTrack.ac3
IsDTSHD(audioTrack) == audioTrack.dts = "DTSHD"
IsDTS(audioTrack) == IF IsDTSHD(audioTrack) THEN FALSE ELSE audioTrack.dts = "DTS"
Is51(audioTrack) ==
    /\ audioTrack.description # NoDescription
    /\ audioTrack.description.ch = <<5, 1>>

\* The preferred language of getAutoAudio: <<>> is None.
PreferredLanguage(preferencesAutoAudioTracks) ==
    IF /\ preferencesAutoAudioTracks.autoSelectPreferredLanguage
       /\ preferencesAutoAudioTracks.preferredLanguage # ""
    THEN <<preferencesAutoAudioTracks.preferredLanguage>>
    ELSE <<>>

\* AudioTrack.IsLanguage raises AttributeError for a track whose description
\* has no language: self.language is None and has no lower().
IsLanguageRaises(audioTrack) == Language(audioTrack.description) = <<>>

IsLanguage(audioTrack, language) ==
    Lower(language) = Lower(Language(audioTrack.description)[1])

RECURSIVE AutoAudioLoop(_, _, _)
\* The loop of AudioTracks.getAutoAudio over the tracks left; found holds
\* track51, trackDTS and trackFallback (<<>> is None) and what was raised.
AutoAudioLoop(found, tracksLeft, p) ==
    IF tracksLeft = <<>> THEN found
    ELSE LET audioTrack == Head(tracksLeft)
             preferredLanguage == PreferredLanguage(p)
         IN IF preferredLanguage # <<>> /\ IsLanguageRaises(audioTrack)
            THEN [found EXCEPT !.raised = "AttributeError"]
            ELSE IF /\ preferredLanguage # <<>>
                    /\ ~IsLanguage(audioTrack, preferredLanguage[1])
            THEN AutoAudioLoop(found, Tail(tracksLeft), p)
            ELSE LET a == IF p.autoSelect51 /\ Is51(audioTrack) /\ found.track51 = <<>>
                          THEN [found EXCEPT !.track51 = <<audioTrack>>] ELSE found
                     b == IF /\ p.autoSelectDTS
                             /\ (IsDTS(audioTrack) \/ IsDTSHD(audioTrack))
                             /\ a.trackDTS = <<>>
                          THEN [a EXCEPT !.trackDTS = <<audioTrack>>] ELSE a
                     c == IF p.autoSelectFallback /\ b.trackFallback = <<>>
                          THEN [b EXCEPT !.trackFallback = <<audioTrack>>] ELSE b
                 IN AutoAudioLoop(c, Tail(tracksLeft), p)

\* AudioTracks.getAutoAudio(preferencesAutoAudioTracks)
GetAutoAudio(audioTracks, p) ==
    LET found == AutoAudioLoop([track51 |-> <<>>, trackDTS |-> <<>>,
                                trackFallback |-> <<>>, raised |-> "none"],
                               audioTracks, p)
    IN IF /\ found.raised = "none"
          /\ found.trackFallback = <<>>
          /\ p.autoSelectFallback
          /\ Len(audioTracks) > 0
       THEN [found EXCEPT !.trackFallback = <<audioTracks[1]>>]
       ELSE found

\* preferences.autoMixdown: each mixdown is named after its attribute.
AutoMixdown(name) == <<name>>

\* One step of autoset_From_AudioTracks: the state at trackIndex takes the
\* track and the two mixdowns; st holds the states and trackIndex.
AutosetState(st, audioTrack, primary, secondary) ==
    [states |-> [st.states EXCEPT ![st.trackIndex + 1] =
                     [@ EXCEPT !.track = ToString(audioTrack.trackNumber),
                               !.primaryMixdown = AutoMixdown(primary),
                               !.secondaryMixdown = AutoMixdown(secondary)]],
     trackIndex |-> st.trackIndex + 1]

\* autoset_From_AudioTracks after self.clear() and getAutoAudio.
AutosetStates(auto) ==
    LET st0 == [states |-> AudioTrackStatesCleared.audioTrackStates, trackIndex |-> 0]
        st1 == IF auto.track51 = <<>> THEN st0
               ELSE IF IsAC3(auto.track51[1])
                    THEN AutosetState(st0, auto.track51[1], "ac351Primary", "ac351Secondary")
                    ELSE AutosetState(st0, auto.track51[1], "otherPrimary", "otherSecondary")
        st2 == IF auto.trackDTS = <<>> THEN st1
               ELSE IF IsDTS(auto.trackDTS[1])
                    THEN AutosetState(st1, auto.trackDTS[1], "dtsPrimary", "dtsSecondary")
                    ELSE AutosetState(st1, auto.trackDTS[1], "dtshdPrimary", "dtshdSecondary")
    IN IF st2.trackIndex = 0 /\ auto.trackFallback # <<>>
       THEN IF IsAC3(auto.trackFallback[1])
            THEN AutosetState(st2, auto.trackFallback[1], "ac3Primary", "ac3Secondary")
            ELSE AutosetState(st2, auto.trackFallback[1], "otherPrimary", "otherSecondary")
       ELSE st2

\* AudioTrackStates.autoset_From_AudioTracks(audioTracks, preferences); the
\* result holds what getAutoAudio found and the value returned (<<>> when the
\* call raised).
AutosetFromAudioTracks(audioTracks, p) ==
    /\ Running
    /\ LET auto == GetAutoAudio(audioTracks, p)
           st == AutosetStates(auto)
       IN IF auto.raised # "none"
          THEN /\ audioTrackStates' = AudioTrackStatesCleared
               /\ raised' = auto.raised
               /\ result' = [auto |-> auto, returned |-> <<>>]
          ELSE /\ audioTrackStates' =
                      [AudioTrackStatesCleared EXCEPT !.audioTrackStates = st.states]
               /\ raised' = "none"
               /\ result' = [auto |-> auto, returned |-> <<st.trackIndex>>]
    /\ lastOp' = "autoset_From_AudioTracks"
    /\ UNCHANGED <<title, titles, titlesById, titlesByTitleNumber,
                   titlesByOrderNumber, hash, policy, other, flags, disc,
                   discMixdowns, subtitleTrackStates, chapters>>

\* A track of a scan: its language code, the digits of "(d.d ch)" and what
\* the description holds of "AC3", "DTS" and "DTSHD".
AutoAudioTrack(iso, ch, ac3, dts) ==
    [trackNumber |-> 0, description |-> [iso |-> iso, ch |-> ch, dolby |-> FALSE],
     ac3 |-> ac3, dts |-> dts]

\* The audio tracks read: a new track, whose description is empty, and
\* tracks of a scan.
AutoAudioTracks ==
    {[trackNumber |-> 0, description |-> NoDescription, ac3 |-> FALSE, dts |-> ""],
     AutoAudioTrack("eng", <<5, 1>>, TRUE, ""),
     AutoAudioTrack("eng", <<5, 1>>, FALSE, "DTS"),
     AutoAudioTrack("eng", <<2, 0>>, FALSE, "DTSHD"),
     AutoAudioTrack("eng", <<2, 0>>, FALSE, "DTS"),
     AutoAudioTrack("eng", <<5, 1>>, FALSE, "DTSHD"),
     AutoAudioTrack("eng", <<2, 0>>, FALSE, ""),
     AutoAudioTrack("fra", <<2, 0>>, TRUE, ""),
     AutoAudioTrack("", <<5, 1>>, TRUE, "")}

\* The AudioTracks collections read: at most MaxAudioTracks tracks, numbered
\* from 1 in sequence order.
AutoAudioTrackLists ==
    UNION {{[k \in 1..n |-> [s[k] EXCEPT !.trackNumber = k]] :
                s \in [1..n -> AutoAudioTracks]} : n \in 0..MaxAudioTracks}

\* preferences.autoAudioTracks
AutoAudioPreferences ==
    [autoSelectPreferredLanguage : BOOLEAN, preferredLanguage : {"", "eng", "ENG"},
     autoSelect51 : BOOLEAN, autoSelectDTS : BOOLEAN, autoSelectFallback : BOOLEAN]

NextAutoset ==
    \E audioTracks \in AutoAudioTrackLists, p \in AutoAudioPreferences :
        AutosetFromAudioTracks(audioTracks, p)

SpecAutoset == InitEmpty /\ [][NextAutoset]_vars

\* The cleared state of index i (from 0).
ClearedState(i) == NewAudioTrackState(i)

\* AudioTrackState.isTrackSelected
IsTrackSelected(state) == state.track # ""

\* What autoset_From_AudioTracks leaves when it has returned k: the 5.1 track
\* and the DTS track that getAutoAudio found have the states from index 0 on,
\* in this order, the fallback track has state 0 only when neither was found;
\* the states of index below k have a track selected and every state of
\* index k or more is cleared.
AutosetAsReturned ==
    LET k == result.returned[1]
        auto == result.auto
        states == audioTrackStates.audioTrackStates
        assigned == (IF auto.track51 = <<>> THEN <<>> ELSE auto.track51)
                        \o (IF auto.trackDTS = <<>> THEN <<>> ELSE auto.trackDTS)
        used == IF assigned = <<>> THEN auto.trackFallback ELSE assigned
    IN /\ k = Len(used)
       /\ \A i \in 1..k :
              /\ states[i].track = ToString(used[i].trackNumber)
              /\ IsTrackSelected(states[i])
       /\ \A i \in (k + 1)..StateCount : states[i] = ClearedState(i - 1)

\* Every call that returns leaves the states so.
AutosetReturnsAsClaimed ==
    (lastOp = "autoset_From_AudioTracks" /\ raised = "none") => AutosetAsReturned

\* C32: autoset_From_AudioTracks clears all states, gives the 5.1 track and
\* the DTS track (if found) consecutive states from index 0, uses the
\* fallback track only when neither was found, and returns the number k of
\* states set: states 0..k-1 have a track selected, every state of index k or
\* more is cleared.
C32_AutosetFillsFirstStates ==
    lastOp = "autoset_From_AudioTracks" =>
        /\ raised = "none"
        /\ result.returned # <<>>
        /\ AutosetAsReturned

\* ------------------------------------------------ claims on pairs of moves
\* The collection is in natural order: the order numbers are 0..n-1 and
\* ascend with the title numbers.
InNaturalOrder ==
    /\ OrderIsPermutation
    /\ \A a, b \in Members :
           title[a].titleNumber < title[b].titleNumber
               => title[a].orderNumber < title[b].orderNumber

AllVisible == \A i \in Members : title[i].visible

\* C33: in a collection in natural order where every title is visible,
\* MoveUp(t) followed by MoveDown(t), for t not at order position 0, and
\* MoveDown(t) followed by MoveUp(t), for t not at the last position, leave
\* every title the orderNumber it had before the two calls.  The second call
\* is evaluated in the state the first call leaves.
C33_MoveUpDownRestores ==
    [][\A obj \in Members :
           /\ (/\ InNaturalOrder /\ AllVisible
               /\ title[obj].orderNumber # 0
               /\ MoveUp(obj))
              => /\ raised' = "none"
                 /\ MoveDownResult(obj)'.raised = "none"
                 /\ \A i \in Members :
                        MoveDownResult(obj)'.t[i].orderNumber = title[i].orderNumber
           /\ (/\ InNaturalOrder /\ AllVisible
               /\ title[obj].orderNumber # Len(titles) - 1
               /\ MoveDown(obj))
              => /\ raised' = "none"
                 /\ MoveUpResult(obj)'.raised = "none"
                 /\ \A i \in Members :
                        MoveUpResult(obj)'.t[i].orderNumber = title[i].orderNumber]_vars

\* ---------------------------------------------- claims on failed insertions
\* C34: an insert, append or replace on a Chapters collection that raises the
\* chapter-number RuntimeError leaves the chapters sequence,
\* chaptersByChapterNumber, lowestChapterNumber and highestChapterNumber as
\* they were before the call, the rejected chapter in none of them.
C34_RejectedChapterLeavesNoTrace ==
    [][(/\ lastOp' \in {"Chapters.insert", "Chapters.__setitem__"}
        /\ raised = "none"
        /\ raised' = "RuntimeError")
           => /\ chapters'.chapters = chapters.chapters
              /\ chapters'.chaptersByChapterNumber = chapters.chaptersByChapterNumber
              /\ chapters'.lowestChapterNumber = chapters.lowestChapterNumber
              /\ chapters'.highestChapterNumber = chapters.highestChapterNumber]_vars

\* The chapter numbers of the chapters in the sequence.
ChapterNumbersHeld == MemberChapterNumbers(0)

\* Chapters.inRange(chapterNumber)
ChaptersInRange(chapterNumber) ==
    /\ chapterNumber >= chapters.lowestChapterNumber
    /\ chapterNumber <= chapters.highestChapterNumber

\* C35: after any sequence of successful insert, replace, delete and clear
\* calls, lowestChapterNumber and highestChapterNumber are the least and the
\* greatest chapterNumber of the chapters in the sequence, both are 0 exactly
\* when the collection is empty, and inRange(c) is true for every chapter
\* number c in the collection.
C35_LowestHighestAreMinMax ==
    raised = "none" =>
        /\ IF ChapterNumbersHeld = {}
           THEN chapters.lowestChapterNumber = 0 /\ chapters.highestChapterNumber = 0
           ELSE /\ chapters.lowestChapterNumber \in ChapterNumbersHeld
                /\ chapters.highestChapterNumber \in ChapterNumbersHeld
                /\ \A c \in ChapterNumbersHeld :
                       /\ chapters.lowestChapterNumber <= c
                       /\ c <= chapters.highestChapterNumber
                /\ chapters.lowestChapterNumber # 0
                /\ chapters.highestChapterNumber # 0
        /\ \A c \in ChapterNumbersHeld : ChaptersInRange(c)

\* C35 witness: a delete has removed the chapter with the lowest number from a
\* full collection, and lowestChapterNumber has followed to the number of
\* the chapter that is left.
C35_Witness ==
    /\ lastOp = "Chapters.__delitem__"
    /\ raised = "none"
    /\ Len(chapters.chapters) = MaxChapters - 1
    /\ ChapterNumbersHeld = {MaxChapters}
    /\ chapters.lowestChapterNumber = MaxChapters
    /\ chapters.highestChapterNumber = MaxChapters

\* --------------------------------------------- claims on what moves touch
MoveNames == {"MoveUp", "MoveDown", "MoveTop", "MoveBottom"}

\* C36: MoveUp, MoveDown, MoveTop and MoveBottom change nothing but
\* orderNumber values and titlesByOrderNumber: the titles sequence,
\* titlesById, titlesByTitleNumber, every title's titleNumber, selected and
\* visible flags and the cached hash are as they were before the move.
C36_MovesTouchOnlyOrder ==
    [][lastOp' \in MoveNames =>
           /\ titles' = titles
           /\ titlesById' = titlesById
           /\ titlesByTitleNumber' = titlesByTitleNumber
           /\ hash' = hash
           /\ \A i \in Ids :
                  [title'[i] EXCEPT !.orderNumber = 0]
                      = [title[i] EXCEPT !.orderNumber = 0]]_vars

\* C36 witness: MoveTop has put a title that is not visible first, in a full
\* collection, and the title is still not visible.
C36_Witness ==
    /\ lastOp = "MoveTop"
    /\ raised = "none"
    /\ Len(titles) = MaxTitles
    /\ \E i \in Members :
           /\ title[i].orderNumber = 0
           /\ ~title[i].visible
           /\ title[i].titleNumber # Min({title[j].titleNumber : j \in Members})

\* ------------------------------------------------- claims on Title.clear
\* C37: after Title.clear() currentObjectType is None, so a detail line
\* parsed right after the clear is dropped: it raises nothing and leaves the
\* title as the clear left it, whatever section header was read before.
C37_ClearResetsSection ==
    [][\A obj \in ParsedTitles :
           TitleClear(obj) =>
               /\ title'[obj].currentObjectType = "None"
               /\ \A line \in DetailLines :
                      TitleParseResult(title'[obj], line)
                          = [t |-> title'[obj], raised |-> "none"]]_vars

====
